---- MODULE Spec2Model ----
(***************************************************************************)
(* Trigger scale-factor configuration and uncertainty calculators of       *)
(* columnflow (production/cmsGhent/trigger).                               *)
(*                                                                         *)
(* Python values are modelled as follows.                                  *)
(*   - a str is a sequence of one-character strings, so that iterating a   *)
(*     str (set("ab") = {"a", "b"}) and str.lower() act on characters;     *)
(*   - None is the option record NoneV, a present value is Some(v);        *)
(*   - a mutable list or set is a cell of the heaps `lists` / `sets`, and  *)
(*     a field holding it holds the cell's index (a reference), so that    *)
(*     two configurations can share one object;                            *)
(*   - a callable is a record [base, layers]: the name of a plain function *)
(*     and the closures wrapped around it, outermost first.                *)
(***************************************************************************)
EXTENDS Integers, Sequences, FiniteSets, TLC

VARIABLES
    cfgs,      \* the TriggerSFConfig objects, in order of creation
    lists,     \* heap of list objects (each a sequence of callables)
    sets,      \* heap of set objects (each a set of column names)
    last,      \* the operation performed last, with its inputs and its calls
    frame      \* the running calc_stat call (its locals and loop position)

vars == <<cfgs, lists, sets, last, frame>>

-----------------------------------------------------------------------------
(* Bounds of the model *)

MaxHeap == 8       \* objects alive while the configuration is defined:
                   \* configurations, lists, sets and list entries
MaxCallHeap == 7   \* the same, in runs that end with the call of an entry
MaxMainVars == 3   \* names in the main_variables argument of the constructor
NVarBins == 2      \* bins of a binning-variable axis
MaxCount == 1      \* largest count filled into one bin of a calc_stat input
MaxEvents == 2     \* events in a chunk
MaxDt == 2         \* longest time of one call and largest min_dt, in ticks
MaxTotal == 4      \* largest accumulated time of a key, in ticks

-----------------------------------------------------------------------------
(* Python values *)

NoneV == [isNone |-> TRUE, val |-> <<>>]
Some(v) == [isNone |-> FALSE, val |-> v]

Upper == << "A","B","C","D","E","F","G","H","I","J","K","L","M",
            "N","O","P","Q","R","S","T","U","V","W","X","Y","Z" >>
Lower == << "a","b","c","d","e","f","g","h","i","j","k","l","m",
            "n","o","p","q","r","s","t","u","v","w","x","y","z" >>

\* str.lower() on one character
LowerChar(ch) ==
    IF \E i \in 1..Len(Upper) : Upper[i] = ch
    THEN Lower[CHOOSE i \in 1..Len(Upper) : Upper[i] = ch]
    ELSE ch

\* str.lower()
StrLower(s) == [i \in 1..Len(s) |-> LowerChar(s[i])]

Range(s) == { s[i] : i \in 1..Len(s) }

\* An argument that may be a str, a list or a set is the record [kind, str,
\* items, members], of which the field of its kind holds the value.
StrIn(s) == [kind |-> "str", str |-> s, items |-> <<>>, members |-> {}]
ListIn(l) == [kind |-> "list", str |-> <<>>, items |-> l, members |-> {}]
SetIn(S) == [kind |-> "set", str |-> <<>>, items |-> <<>>, members |-> S]

\* set(x): a str iterates over its characters, a list over its items
PySet(x) ==
    CASE x.kind = "str"  -> { <<x.str[i]>> : i \in 1..Len(x.str) }
      [] x.kind = "list" -> Range(x.items)
      [] x.kind = "set"  -> x.members

\* seq.index(x): the first position of x; only called when x is in seq
Index(seq, x) == CHOOSE i \in 1..Len(seq) : seq[i] = x /\ \A j \in 1..(i-1) : seq[j] # x

\* insert x behind every element whose key is not larger (stable)
RECURSIVE InsertByIndex(_, _, _)
InsertByIndex(x, s, order) ==
    IF s = <<>> THEN <<x>>
    ELSE IF Index(order, Head(s)) <= Index(order, x)
         THEN <<Head(s)>> \o InsertByIndex(x, Tail(s), order)
         ELSE <<x>> \o s

\* sorted(s, key=order.index): a stable sort by first position in `order`
RECURSIVE SortedByIndex(_, _)
SortedByIndex(s, order) ==
    IF s = <<>> THEN <<>>
    ELSE InsertByIndex(s[Len(s)], SortedByIndex(SubSeq(s, 1, Len(s) - 1), order), order)

-----------------------------------------------------------------------------
(* Callables *)

NoneFunc == [base |-> "None", layers |-> <<>>]
Plain(name) == [base |-> name, layers |-> <<>>]

\* the closure decorated_func of TriggerSFConfig.uncertainty with the values it
\* captures; is_stat notes the stat argument of the registration that made
\* it, which the closure itself never reads
ReduceLayer(owner, variables, collect, kw, is_stat) ==
    [kind |-> "reduce", owner |-> owner, variables |-> variables,
     collect |-> collect, kw |-> kw, is_stat |-> is_stat]

\* the lambda stored in _stat_func
StatLayer(owner) ==
    [kind |-> "stat", owner |-> owner, variables |-> <<>>,
     collect |-> FALSE, kw |-> {}, is_stat |-> TRUE]

Wrap(layer, func) == [base |-> func.base, layers |-> <<layer>> \o func.layers]

\* the function a closure wraps
Wrapped(func) == [base |-> func.base, layers |-> Tail(func.layers)]

-----------------------------------------------------------------------------
(* TriggerSFConfig.  A world W is the record [cfgs, lists, sets] of the     *)
(* objects alive; every method takes a world and returns the world after it. *)

World == [cfgs |-> cfgs, lists |-> lists, sets |-> sets]

RECURSIVE TotalLen(_)
TotalLen(ls) == IF ls = <<>> THEN 0 ELSE Len(Head(ls)) + TotalLen(Tail(ls))

\* the objects of a world: configurations, sets, lists and their entries
HeapSize(W) == Len(W.cfgs) + Len(W.sets) + Len(W.lists) + TotalLen(W.lists)

\* a bug: the str case is missing, as it is for the datasets
NormTriggers_NoStrCase(x) ==
    IF x.kind # "set" THEN PySet(x) ELSE x.members

\* __post_init__, lines 54-57 and 60-63: a str becomes the one-element set,
\* any other non-set iterable is handed to set()
NormTriggers(x) ==
    IF x.kind = "str" THEN {x.str}
    ELSE IF x.kind # "set" THEN PySet(x)
    ELSE x.members

\* __post_init__, lines 65-66: everything that is not a set is handed to set()
NormDatasets(x) ==
    IF x.kind # "set" THEN PySet(x) ELSE x.members

\* __post_init__, lines 69-70
DefaultConfigName(tag, ref_tag) ==
    <<"h","l","t","_">> \o StrLower(tag) \o <<"_","r","e","f","_">> \o StrLower(ref_tag)

\* __post_init__, lines 71-73; sorted() raises ValueError from variables.index
\* for a name that is not in variables
MainVariablesRaises(variables, main_variables) ==
    /\ ~main_variables.isNone
    /\ \E i \in 1..Len(main_variables.val) : main_variables.val[i] \notin Range(variables)

\* a bug: the names are kept in the order given
MainVariables_AsGiven(variables, main_variables) ==
    IF main_variables.isNone THEN variables ELSE main_variables.val

MainVariables(variables, main_variables) ==
    SortedByIndex(IF main_variables.isNone THEN variables ELSE main_variables.val,
                  variables)

\* a bug: the new entry is put in front of the earlier ones
AppendEntry_InFront(W, c, entry) ==
    [W EXCEPT !.lists[W.cfgs[c].uncertainties] = <<entry>> \o @]

\* line 127: self.uncertainties.append(decorated_func)
AppendEntry(W, c, entry) ==
    [W EXCEPT !.lists[W.cfgs[c].uncertainties] = Append(@, entry)]

\* a bug: a statistical source, once set, is kept
StoreStat_KeepsFirst(W, c, func, stat) ==
    IF stat /\ W.cfgs[c].stat_func = NoneFunc
    THEN [W EXCEPT !.cfgs[c].stat_func = Wrap(StatLayer(c), func)]
    ELSE W

\* a bug: stat_unc is a reduction closure like the entry
StoreStat_StoresEntry(W, c, func, stat) ==
    IF stat
    THEN [W EXCEPT !.cfgs[c].stat_func =
                      Wrap(ReduceLayer(c, W.cfgs[c].main_variables, TRUE, {}, TRUE), func)]
    ELSE W

\* lines 125-126: if stat: self._stat_func = lambda ...: func(...)
StoreStat(W, c, func, stat) ==
    IF stat
    THEN [W EXCEPT !.cfgs[c].stat_func = Wrap(StatLayer(c), func)]
    ELSE W

\* uncertainty(func, variables, collect_mc_data, stat, **unc_kwargs) on cfgs[c]
\* with func given, or the decorator it returns applied to func
Uncertainty(W, c, func, variables, collect, stat, kw) ==
    LET self == W.cfgs[c]
        vrs == IF variables.isNone THEN self.main_variables ELSE variables.val
        decorated_func == Wrap(ReduceLayer(c, vrs, collect, kw, stat), func)
    IN  AppendEntry(StoreStat(W, c, func, stat), c, decorated_func)

\* __post_init__, lines 76-77: for unc in uncertainties: self.uncertainty(unc)
RECURSIVE RegisterAll(_, _, _)
RegisterAll(W, c, uncs) ==
    IF uncs = <<>> THEN W
    ELSE RegisterAll(Uncertainty(W, c, Head(uncs), NoneV, TRUE, FALSE, {}), c, Tail(uncs))

\* TriggerSFConfig(**a): the generated __init__ followed by __post_init__.
\* a.event_mask_uses and a.uncertainties are NoneV (the default factory makes
\* a new object) or a reference to an existing object.
Construct(W, a) ==
    LET c == Len(W.cfgs) + 1
        sets0 == IF a.event_mask_uses.isNone THEN Append(W.sets, {}) ELSE W.sets
        usesRef == IF a.event_mask_uses.isNone THEN Len(sets0) ELSE a.event_mask_uses.val
        \* line 75: the entries given are kept aside and self.uncertainties is
        \* rebound to a new, empty list (the default factory's list is dropped)
        uncertainties == IF a.uncertainties.isNone THEN <<>>
                         ELSE W.lists[a.uncertainties.val]
        lists1 == Append(W.lists, <<>>)
        self == [triggers |-> NormTriggers(a.triggers),
                 ref_triggers |-> NormTriggers(a.ref_triggers),
                 datasets |-> NormDatasets(a.datasets),
                 variables |-> a.variables,
                 tag |-> a.tag,
                 ref_tag |-> a.ref_tag,
                 config_name |-> IF a.config_name.isNone
                                 THEN DefaultConfigName(a.tag, a.ref_tag)
                                 ELSE a.config_name.val,
                 main_variables |-> MainVariables(a.variables, a.main_variables),
                 event_mask_func |-> a.event_mask_func,
                 event_mask_uses |-> usesRef,
                 uncertainties |-> Len(lists1),
                 \* _stat_func is a class attribute, not a dataclass field
                 stat_func |-> NoneFunc]
        W1 == [cfgs |-> Append(W.cfgs, self), lists |-> lists1, sets |-> sets0]
    IN  IF MainVariablesRaises(a.variables, a.main_variables)
        THEN [raised |-> TRUE, W |-> W]
        ELSE [raised |-> FALSE, W |-> RegisterAll(W1, c, uncertainties)]

\* dataclasses.replace(self, **changes): every init field of self, overridden
\* by the changes, is passed to the constructor; containers are passed by
\* reference.  ch.uncertainties, when given, is the content of a list the
\* caller has made.
Copy(W, c, ch) ==
    LET self == W.cfgs[c]
        listsA == IF ch.uncertainties.isNone THEN W.lists
                  ELSE Append(W.lists, ch.uncertainties.val)
        a == [triggers |-> IF ch.triggers.isNone
                           THEN SetIn(self.triggers)
                           ELSE ch.triggers.val,
              ref_triggers |-> SetIn(self.ref_triggers),
              datasets |-> SetIn(self.datasets),
              variables |-> self.variables,
              tag |-> IF ch.tag.isNone THEN self.tag ELSE ch.tag.val,
              ref_tag |-> self.ref_tag,
              config_name |-> Some(self.config_name),
              main_variables |-> IF ch.main_variables.isNone
                                 THEN Some(self.main_variables)
                                 ELSE ch.main_variables,
              event_mask_func |-> self.event_mask_func,
              event_mask_uses |-> Some(self.event_mask_uses),
              uncertainties |-> IF ch.uncertainties.isNone
                                THEN Some(self.uncertainties)
                                ELSE Some(Len(listsA))]
    IN  Construct([W EXCEPT !.lists = listsA], a)

\* a bug: `|=`, which updates the set object in place
UnionUses_InPlace(W, c, uses) ==
    [W EXCEPT !.sets[W.cfgs[c].event_mask_uses] = @ \cup uses]

\* a bug: the columns given replace the columns held
UnionUses_Replaces(W, c, uses) ==
    [W EXCEPT !.cfgs[c].event_mask_uses = Len(W.sets) + 1,
              !.sets = Append(W.sets, uses)]

\* line 97: self.event_mask_uses = self.event_mask_uses | uses makes a new
\* set object and rebinds the field to it
UnionUses(W, c, uses) ==
    [W EXCEPT !.cfgs[c].event_mask_uses = Len(W.sets) + 1,
              !.sets = Append(W.sets, W.sets[W.cfgs[c].event_mask_uses] \cup uses)]

\* event_mask: the inner decorator applied to func.  The function is stored
\* first; `set | None` then raises TypeError and leaves the uses as they were.
EventMask(W, c, func, uses) ==
    LET W1 == [W EXCEPT !.cfgs[c].event_mask_func = func]
    IN  IF uses.isNone
        THEN [raised |-> TRUE, W |-> W1]
        ELSE [raised |-> FALSE, W |-> UnionUses(W1, c, uses.val)]

\* what a caller sees of configuration c, containers read through
View(W, c) ==
    LET self == W.cfgs[c]
    IN  [triggers |-> self.triggers,
         ref_triggers |-> self.ref_triggers,
         datasets |-> self.datasets,
         variables |-> self.variables,
         tag |-> self.tag,
         ref_tag |-> self.ref_tag,
         config_name |-> self.config_name,
         main_variables |-> self.main_variables,
         event_mask_func |-> self.event_mask_func,
         event_mask_uses |-> W.sets[self.event_mask_uses],
         uncertainties |-> W.lists[self.uncertainties],
         stat_unc |-> self.stat_func]


-----------------------------------------------------------------------------
(* Histograms.  A histogram is [axes, vals]: axes is a sequence of          *)
(* [name, n] (n bins, indexed 0..n-1) and vals maps every index tuple to    *)
(* the value of that bin.                                                   *)

NTrigBins == 2     \* a trigger axis has the bins 0 (not fired) and 1 (fired)

Max(S) == CHOOSE x \in S : \A y \in S : y <= x

\* every index tuple of a sequence of axes
Indices(axes) ==
    IF axes = <<>> THEN {<<>>}
    ELSE { f \in [1..Len(axes) -> 0..(Max({axes[i].n : i \in 1..Len(axes)}) - 1)] :
             \A i \in 1..Len(axes) : f[i] < axes[i].n }

AxisNames(h) == [i \in 1..Len(h.axes) |-> h.axes[i].name]

RECURSIVE SumOver(_, _)
SumOver(S, f) ==
    IF S = {} THEN 0
    ELSE LET x == CHOOSE y \in S : TRUE IN f[x] + SumOver(S \ {x}, f)

\* positions of the axes of h whose name is in `names`, in axis order
RECURSIVE KeptPositions(_, _, _)
KeptPositions(axes, names, i) ==
    IF i > Len(axes) THEN <<>>
    ELSE (IF axes[i].name \in names THEN <<i>> ELSE <<>>) \o KeptPositions(axes, names, i + 1)

\* positions 1..n that are not in the sequence pos
RECURSIVE OtherPositions(_, _, _)
OtherPositions(n, pos, i) ==
    IF i > n THEN <<>>
    ELSE (IF i \in Range(pos) THEN <<>> ELSE <<i>>) \o OtherPositions(n, pos, i + 1)

\* the histogram h summed over every axis whose position is not in pos
Project(h, pos) ==
    LET axes == [k \in 1..Len(pos) |-> h.axes[pos[k]]]
        rest == OtherPositions(Len(h.axes), pos, 1)
        summed == Indices([k \in 1..Len(rest) |-> h.axes[rest[k]]])
        Full(idx, r) == [p \in 1..Len(h.axes) |->
                           IF \E k \in 1..Len(pos) : pos[k] = p
                           THEN idx[CHOOSE k \in 1..Len(pos) : pos[k] = p]
                           ELSE r[CHOOSE k \in 1..Len(rest) : rest[k] = p]]
    IN  [axes |-> axes,
         vals |-> [idx \in Indices(axes) |->
                     SumOver({ Full(idx, r) : r \in summed }, h.vals)]]

\* util.reduce_hist(h, exclude=names): sum over every axis not named; names
\* that are no axis of h are ignored
ReduceHist(h, names) == Project(h, KeptPositions(h.axes, names, 1))

\* the keys of a raw histogram mapping are datasets
DataDatasets == {"data_mu"}
McDatasets == {"tt", "dy"}
IsDataset(k) == k \in DataDatasets \cup McDatasets

RECURSIVE SumHists(_, _)
SumHists(hs, keys) ==
    LET k == CHOOSE x \in keys : TRUE
        rest == keys \ {k}
    IN  IF rest = {} THEN hs[k]
        ELSE LET r == SumHists(hs, rest)
             IN  [axes |-> hs[k].axes,
                  vals |-> [idx \in DOMAIN hs[k].vals |-> hs[k].vals[idx] + r.vals[idx]]]

\* util.collect_hist is defined on a mapping keyed by datasets
CollectDefined(hs) == \A k \in DOMAIN hs : IsDataset(k)

\* util.collect_hist(histograms): the data datasets and the simulated
\* datasets, each summed; a mapping that is already {data, mc} is outside its
\* contract and is passed through by a lenient implementation
CollectHist(hs) ==
    IF CollectDefined(hs)
    THEN [dt \in {"data", "mc"} |->
            SumHists(hs, IF dt = "data" THEN DOMAIN hs \cap DataDatasets
                         ELSE DOMAIN hs \cap McDatasets)]
    ELSE hs

\* kwargs |= unc_kwargs on keyword arguments held as sets of <<key, value>>
MergeKw(kwargs, unc_kwargs) ==
    unc_kwargs \cup { p \in kwargs : \A q \in unc_kwargs : q[1] # p[1] }


-----------------------------------------------------------------------------
(* Calling an entry *)

\* a bug: only the binning variables are kept, so that the two trigger axes
\* are summed over as well
DecoratedFuncCall_DropsTriggerAxes(W, layer, histograms, args, kwargs) ==
    LET self == W.cfgs[layer.owner]
        collected == IF layer.collect THEN CollectHist(histograms) ELSE histograms
        reduced == [dt \in DOMAIN collected |->
                      ReduceHist(collected[dt], Range(layer.variables))]
    IN  [histograms |-> reduced,
         args |-> <<self.tag, self.ref_tag>> \o args,
         kwargs |-> MergeKw(kwargs, layer.kw)]

\* decorated_func(histograms, *args, **kwargs), lines 114-124: what it hands
\* to func.  self.tag and self.ref_tag are read when the entry is called.
DecoratedFuncCall(W, layer, histograms, args, kwargs) ==
    LET self == W.cfgs[layer.owner]
        vrs == <<self.tag, self.ref_tag>> \o layer.variables
        collected == IF layer.collect THEN CollectHist(histograms) ELSE histograms
        reduced == [dt \in DOMAIN collected |-> ReduceHist(collected[dt], Range(vrs))]
    IN  [histograms |-> reduced,
         args |-> <<self.tag, self.ref_tag>> \o args,
         kwargs |-> MergeKw(kwargs, layer.kw)]

\* the lambda of line 126: hs, *args, **kwargs -> func(hs, tag, ref_tag, ...)
StatFuncCall(W, layer, hs, args, kwargs) ==
    LET self == W.cfgs[layer.owner]
    IN  [histograms |-> hs,
         args |-> <<self.tag, self.ref_tag>> \o args,
         kwargs |-> kwargs]

\* The calls made by func(histograms, *args, **kwargs), outermost first: the
\* call itself, then the call each closure makes to the function it wraps.  A
\* plain function is opaque.  collect_hist on a mapping that is not keyed by
\* datasets raises unless the implementation is lenient.
RECURSIVE Calls(_, _, _, _, _, _)
Calls(W, func, histograms, args, kwargs, lenient) ==
    LET call == [callee |-> func, histograms |-> histograms, args |-> args,
                 kwargs |-> kwargs, raised |-> FALSE]
        layer == Head(func.layers)
        inner == Wrapped(func)
        passed == IF layer.kind = "stat"
                  THEN StatFuncCall(W, layer, histograms, args, kwargs)
                  ELSE DecoratedFuncCall(W, layer, histograms, args, kwargs)
    IN  IF func.layers = <<>> THEN <<call>>
        ELSE IF layer.kind = "reduce" /\ layer.collect
                /\ ~CollectDefined(histograms) /\ ~lenient
             THEN <<[call EXCEPT !.raised = TRUE]>>
             ELSE <<call>> \o Calls(W, inner, passed.histograms, passed.args,
                                    passed.kwargs, lenient)

-----------------------------------------------------------------------------
(* Inputs of the configuration model *)

Pt == <<"p","t">>
Eta == <<"e","t","a">>
Phi == <<"p","h","i">>
Trig == <<"t","r","i","g">>          \* default of the field tag
Ref == <<"r","e","f">>               \* default of the field ref_tag
HltMu == <<"M","u">>
HltEle == <<"E","l","e">>
HltMet == <<"M","E","T">>
DataMu == <<"d","m">>
TT == <<"t","t">>

\* constructor arguments as the user writes them; uncertainties, when given,
\* is the content of the list passed
UserArgs ==
    { [triggers |-> StrIn(HltMu), ref_triggers |-> StrIn(HltMet),
       datasets |-> ListIn(<<DataMu, TT>>), variables |-> <<Pt, Eta>>,
       tag |-> Trig, ref_tag |-> Ref, config_name |-> NoneV,
       main_variables |-> NoneV, uncertainties |-> NoneV],
      [triggers |-> ListIn(<<HltMu, HltEle>>), ref_triggers |-> SetIn({HltMet}),
       datasets |-> SetIn({DataMu, TT}), variables |-> <<Pt, Eta>>,
       tag |-> HltMu, ref_tag |-> HltMet, config_name |-> NoneV,
       main_variables |-> Some(<<Pt>>),
       uncertainties |-> Some(<<Plain("calc_corr"), Plain("calc_stat")>>)],
      [triggers |-> SetIn({HltEle}), ref_triggers |-> StrIn(HltMet),
       datasets |-> ListIn(<<DataMu, TT>>), variables |-> <<Pt, Eta>>,
       tag |-> Trig, ref_tag |-> Ref, config_name |-> Some(<<"e","l","e">>),
       main_variables |-> Some(<<Eta, Pt>>),
       uncertainties |-> Some(<<Plain("calc_corr")>>)],
      [triggers |-> StrIn(HltMu), ref_triggers |-> StrIn(HltMet),
       datasets |-> ListIn(<<DataMu, TT>>), variables |-> <<Pt, Eta>>,
       tag |-> Trig, ref_tag |-> Ref, config_name |-> NoneV,
       main_variables |-> Some(<<Phi>>), uncertainties |-> NoneV] }

\* uncertainty(func, variables=, collect_mc_data=, stat=, **unc_kwargs)
UncInputs ==
    { [func |-> Plain("calc_stat"), variables |-> NoneV, collect |-> TRUE,
       stat |-> TRUE, kw |-> {}],
      [func |-> Plain("user_stat"), variables |-> Some(<<Pt>>), collect |-> FALSE,
       stat |-> TRUE, kw |-> {<<"error_func", "wald">>}],
      [func |-> Plain("calc_corr"), variables |-> Some(<<Eta>>), collect |-> TRUE,
       stat |-> FALSE, kw |-> {<<"tag", "corr_eta">>}],
      [func |-> Plain("calc_corr"), variables |-> NoneV, collect |-> FALSE,
       stat |-> FALSE, kw |-> {}] }

\* event_mask(func, uses=) as a call, or @event_mask(uses=) as a decorator
MaskInputs ==
    { [func |-> Plain("mask_mu"), uses |-> Some({"Muon.pt"}), form |-> "call"],
      [func |-> Plain("mask_ele"), uses |-> Some({"Electron.pt", "Electron.eta"}),
       form |-> "decorator"],
      [func |-> Plain("mask_all"), uses |-> NoneV, form |-> "call"] }

NoChange == [from |-> 0, triggers |-> NoneV, tag |-> NoneV, main_variables |-> NoneV,
             uncertainties |-> NoneV]

\* copy(**changes)
CopyInputs ==
    { NoChange,
      [NoChange EXCEPT !.tag = Some(HltEle), !.triggers = Some(StrIn(HltEle))],
      [NoChange EXCEPT !.uncertainties = Some(<<Plain("calc_stat")>>)] }

\* raw per-dataset histograms with the axes tag, ref_tag and the variables of
\* the configuration, in this or in the opposite order; the first variable
\* has NVarBins bins and the others two; every bin of every dataset holds a
\* different count
RawAxes(self, reversed) ==
    LET straight == <<[name |-> self.tag, n |-> NTrigBins],
                      [name |-> self.ref_tag, n |-> NTrigBins]>>
                    \o [i \in 1..Len(self.variables) |->
                          [name |-> self.variables[i],
                           n |-> IF i = 1 THEN NVarBins ELSE NTrigBins]]
    IN  IF reversed
        THEN [i \in 1..Len(straight) |-> straight[Len(straight) + 1 - i]]
        ELSE straight

RECURSIVE Weighted(_, _)
Weighted(idx, base) ==
    IF idx = <<>> THEN 0 ELSE Head(idx) + base * Weighted(Tail(idx), base)

RawHists(self, reversed) ==
    LET axes == RawAxes(self, reversed)
        offset == [k \in DataDatasets \cup McDatasets |->
                     CASE k = "data_mu" -> 1 [] k = "tt" -> 100 [] k = "dy" -> 10000]
    IN  [k \in DataDatasets \cup McDatasets |->
           [axes |-> axes,
            vals |-> [idx \in Indices(axes) |-> offset[k] * (1 + Weighted(idx, 3))]]]

\* entry(histograms, *args, **kwargs): the order of the axes of the raw
\* histograms and the further arguments
CallInputs ==
    { [reversed |-> FALSE, args |-> <<"store_hists">>, kwargs |-> {}],
      [reversed |-> TRUE, args |-> <<"store_hists">>,
       kwargs |-> {<<"tag", "mine">>, <<"error_func", "koopman">>}] }

-----------------------------------------------------------------------------
(* The configuration: its operations as actions *)

Idle == [pc |-> "idle"]

Done(op, c, raised, inp, calls) ==
    [op |-> op, cfg |-> c, raised |-> raised, inp |-> inp, calls |-> calls]

Install(W) ==
    /\ cfgs' = W.cfgs
    /\ lists' = W.lists
    /\ sets' = W.sets

Init ==
    /\ cfgs = <<>>
    /\ lists = <<>>
    /\ sets = <<>>
    /\ last = Done("none", 0, FALSE, <<>>, <<>>)
    /\ frame = Idle

\* the user's list of entries, when given, is an object of its own
WithUserList(W, a) ==
    IF a.uncertainties.isNone THEN W
    ELSE [W EXCEPT !.lists = Append(W.lists, a.uncertainties.val)]

\* The configuration is mutated at definition time only: once an entry has
\* been called, nothing is registered any more.
Defining == last.op \notin {"invoke", "stat_unc"}

\* cfg = TriggerSFConfig(...)
New(a) ==
    /\ cfgs = <<>>
    /\ Defining
    /\ LET W0 == WithUserList(World, a)
           r == Construct(W0, [triggers |-> a.triggers,
                               ref_triggers |-> a.ref_triggers,
                               datasets |-> a.datasets,
                               variables |-> a.variables,
                               tag |-> a.tag,
                               ref_tag |-> a.ref_tag,
                               config_name |-> a.config_name,
                               main_variables |-> a.main_variables,
                               event_mask_func |-> NoneFunc,
                               event_mask_uses |-> NoneV,
                               uncertainties |-> IF a.uncertainties.isNone THEN NoneV
                                                 ELSE Some(Len(W0.lists))])
       IN  /\ Install(r.W)
           /\ last' = Done("new", Len(r.W.cfgs), r.raised, a, <<>>)
    /\ UNCHANGED frame

\* cfgs[c].uncertainty(func, ...) or @cfgs[c].uncertainty(...)
Register(c, u) ==
    /\ Defining
    /\ HeapSize(World) < MaxHeap
    /\ Install(Uncertainty(World, c, u.func, u.variables, u.collect, u.stat, u.kw))
    /\ last' = Done("uncertainty", c, FALSE, u, <<>>)
    /\ UNCHANGED frame

\* cfgs[c].event_mask(func, uses=...) or @cfgs[c].event_mask(uses=...)
Mask(c, m) ==
    /\ Defining
    /\ HeapSize(World) < MaxHeap
    /\ LET r == EventMask(World, c, m.func, m.uses)
       IN  /\ Install(r.W)
           /\ last' = Done("event_mask", c, r.raised, m, <<>>)
    /\ UNCHANGED frame

\* cfgs[c].copy(**ch)
CopyCfg(c, ch) ==
    /\ Defining
    /\ LET r == Copy(World, c, ch)
       IN  /\ HeapSize(r.W) <= MaxHeap
           /\ Install(r.W)
           /\ last' = Done("copy", Len(r.W.cfgs), r.raised, [ch EXCEPT !.from = c], <<>>)
    /\ UNCHANGED frame

\* whether entry func hands a mapping that is not keyed by datasets to
\* collect_hist, so that the outcome depends on the implementation
RECURSIVE CollectsTwice(_, _)
CollectsTwice(layers, collected) ==
    IF layers = <<>> THEN FALSE
    ELSE \/ Head(layers).kind = "reduce" /\ Head(layers).collect /\ collected
         \/ CollectsTwice(Tail(layers),
                          collected \/ (Head(layers).kind = "reduce" /\ Head(layers).collect))

\* cfgs[c].uncertainties[i](histograms, *args, **kwargs)
Invoke(c, i, x, lenient) ==
    /\ Defining
    /\ LET func == lists[cfgs[c].uncertainties][i]
       IN  /\ lenient => CollectsTwice(func.layers, FALSE)
           /\ last' = Done("invoke", c, FALSE, [i |-> i, x |-> x, lenient |-> lenient],
                           Calls(World, func, RawHists(cfgs[c], x.reversed),
                                 x.args, x.kwargs, lenient))
    /\ UNCHANGED <<cfgs, lists, sets, frame>>

\* cfgs[c].stat_unc(hs, *args, **kwargs)
InvokeStat(c, x) ==
    /\ Defining
    /\ cfgs[c].stat_func # NoneFunc
    /\ last' = Done("stat_unc", c, FALSE, [i |-> 0, x |-> x, lenient |-> FALSE],
                    Calls(World, cfgs[c].stat_func, RawHists(cfgs[c], x.reversed),
                          x.args, x.kwargs, FALSE))
    /\ UNCHANGED <<cfgs, lists, sets, frame>>

\* defining configurations
Next ==
    \/ \E a \in UserArgs : New(a)
    \/ \E c \in 1..Len(cfgs), u \in UncInputs : Register(c, u)
    \/ \E c \in 1..Len(cfgs), m \in MaskInputs : Mask(c, m)
    \/ \E c \in 1..Len(cfgs), ch \in CopyInputs : CopyCfg(c, ch)

Spec == Init /\ [][Next]_vars

\* defining configurations and then calling one entry or stat_unc
WithinCallHeap == HeapSize([cfgs |-> cfgs', lists |-> lists', sets |-> sets']) <= MaxCallHeap

NextCall ==
    \/ \E a \in UserArgs : New(a) /\ WithinCallHeap
    \/ \E c \in 1..Len(cfgs), u \in UncInputs : Register(c, u) /\ WithinCallHeap
    \/ \E c \in 1..Len(cfgs), ch \in CopyInputs : CopyCfg(c, ch) /\ WithinCallHeap
    \/ \E c \in 1..Len(cfgs) : \E i \in 1..Len(lists[cfgs[c].uncertainties]),
          x \in CallInputs, lenient \in BOOLEAN : Invoke(c, i, x, lenient)
    \/ \E c \in 1..Len(cfgs), x \in CallInputs : InvokeStat(c, x)

SpecCall == Init /\ [][NextCall]_vars


-----------------------------------------------------------------------------
(* Properties of the configuration *)

Entries(W, c) == W.lists[W.cfgs[c].uncertainties]

IsPrefix(s, t) == Len(s) <= Len(t) /\ \A i \in 1..Len(s) : s[i] = t[i]

\* entry e is the reduction closure of configuration c around func
WrapsFor(e, c, func) ==
    /\ e.layers # <<>>
    /\ Head(e.layers).kind = "reduce"
    /\ Head(e.layers).owner = c
    /\ Wrapped(e) = func

\* the position of the last entry of configuration c registered with
\* stat=True, 0 if there is none
LastStat(W, c) ==
    LET S == { i \in 1..Len(Entries(W, c)) : Head(Entries(W, c)[i].layers).is_stat }
    IN  IF S = {} THEN 0 ELSE Max(S)

\* C1: every registration appends exactly one wrapped entry to the list of
\* its configuration and leaves all earlier entries where they are; the
\* entries given to the constructor (by the user or by copy) are registered
\* first, one entry each, in list order.
C1_RegistrationOrder ==
    [][ /\ \A c \in 1..Len(cfgs) : IsPrefix(Entries(World, c), Entries(World', c))
        /\ last'.op = "uncertainty" =>
              /\ Len(Entries(World', last'.cfg)) = Len(Entries(World, last'.cfg)) + 1
              /\ WrapsFor(Entries(World', last'.cfg)[Len(Entries(World', last'.cfg))],
                          last'.cfg, last'.inp.func)
        /\ (last'.op = "new" /\ ~last'.raised) =>
              LET given == IF last'.inp.uncertainties.isNone THEN <<>>
                           ELSE last'.inp.uncertainties.val
              IN  /\ Len(Entries(World', 1)) = Len(given)
                  /\ \A i \in 1..Len(given) : WrapsFor(Entries(World', 1)[i], 1, given[i])
        /\ (last'.op = "copy" /\ ~last'.raised) =>
              LET given == IF last'.inp.uncertainties.isNone
                           THEN Entries(World, last'.inp.from)
                           ELSE last'.inp.uncertainties.val
              IN  /\ Len(Entries(World', last'.cfg)) = Len(given)
                  /\ \A i \in 1..Len(given) :
                        WrapsFor(Entries(World', last'.cfg)[i], last'.cfg, given[i])
      ]_vars

\* a configuration built from two entries has received a third one
C1_Witness ==
    /\ last.op = "uncertainty"
    /\ Len(Entries(World, last.cfg)) = 3
    /\ Entries(World, last.cfg)[1] # Entries(World, last.cfg)[2]

\* C4 as claimed: at most one entry of a configuration was registered with
\* stat=True.
C4_AtMostOneStatEntry ==
    \A c \in 1..Len(cfgs) :
        Cardinality({ i \in 1..Len(Entries(World, c)) :
                        Head(Entries(World, c)[i].layers).is_stat }) <= 1

\* C4 as amended: a configuration exposes at most one function as stat_unc,
\* the function of the latest registration with stat=True made on it (None
\* if there is none); the entries registered with stat=True are not limited
\* in number and all stay in the list.
C4_LatestStatWins ==
    \A c \in 1..Len(cfgs) :
        IF LastStat(World, c) = 0
        THEN cfgs[c].stat_func = NoneFunc
        ELSE /\ cfgs[c].stat_func.layers # <<>>
             /\ Head(cfgs[c].stat_func.layers).kind = "stat"
             /\ Head(cfgs[c].stat_func.layers).owner = c
             /\ Wrapped(cfgs[c].stat_func) = Wrapped(Entries(World, c)[LastStat(World, c)])

\* two entries registered with stat=True, with different functions
C4_Witness ==
    \E c \in 1..Len(cfgs) : \E i, j \in 1..Len(Entries(World, c)) :
        /\ i < j
        /\ Head(Entries(World, c)[i].layers).is_stat
        /\ Head(Entries(World, c)[j].layers).is_stat
        /\ Wrapped(Entries(World, c)[i]) # Wrapped(Entries(World, c)[j])
        /\ LastStat(World, c) = j

\* C5: copy, and every registration made on another configuration (a clone,
\* or the original of a clone), leaves a configuration as it was: its sets of
\* triggers, reference triggers and datasets, main_variables, the event mask
\* and its columns, stat_unc and the content of its list of entries.
C5_CopyLeavesOriginal ==
    [][ \A c \in 1..Len(cfgs) :
          (last'.op \in {"copy", "uncertainty", "event_mask"} /\ last'.cfg # c)
             => View(World', c) = View(World, c)
      ]_vars

\* an event mask has been registered on the clone of a configuration that
\* holds an entry: the clone has the mask and its columns, the original has not
C5_Witness ==
    /\ Len(cfgs) = 2
    /\ last.op = "event_mask" /\ last.cfg = 2 /\ ~last.raised
    /\ Len(Entries(World, 1)) = 1
    /\ Len(Entries(World, 2)) = 1
    /\ View(World, 1).event_mask_func = NoneFunc
    /\ View(World, 1).event_mask_uses # View(World, 2).event_mask_uses

\* C6: event_mask(func, uses=U), as a call or as a decorator, makes func the
\* event mask and adds U to the columns; the columns of a configuration never
\* shrink and its event mask is the function registered last.
C6_EventMaskUnion ==
    [][ /\ \A c \in 1..Len(cfgs) :
              /\ View(World, c).event_mask_uses \subseteq View(World', c).event_mask_uses
              /\ (last'.op # "event_mask" \/ last'.cfg # c) =>
                     View(World', c).event_mask_func = View(World, c).event_mask_func
        /\ last'.op = "event_mask" =>
              /\ View(World', last'.cfg).event_mask_func = last'.inp.func
              /\ ~last'.inp.uses.isNone =>
                    /\ ~last'.raised
                    /\ View(World', last'.cfg).event_mask_uses =
                          View(World, last'.cfg).event_mask_uses \cup last'.inp.uses.val
      ]_vars

\* a second mask, given as a decorator, has added its columns to the first's
C6_Witness ==
    /\ last.op = "event_mask" /\ last.inp.form = "decorator"
    /\ View(World, last.cfg).event_mask_uses = {"Muon.pt", "Electron.pt", "Electron.eta"}


-----------------------------------------------------------------------------
(* Properties of calling an entry *)

\* the datasets whose histograms make up key dt of what an entry hands on
Members(collect, dt) ==
    IF ~collect THEN {dt}
    ELSE IF dt = "data" THEN DataDatasets ELSE McDatasets

\* the sum, over the index tuples in S and the datasets in members, of the
\* raw bins, added to acc
RECURSIVE SumRaw(_, _, _, _)
SumRaw(S, raw, members, acc) ==
    IF S = {} THEN acc
    ELSE LET x == CHOOSE y \in S : TRUE
         IN  SumRaw(S \ {x}, raw, members,
                    acc + SumOver(members, [k \in members |-> raw[k].vals[x]]))

\* h is raw[k], k in members, added up and summed over every axis that is
\* not named in keep: the axes kept are in their order, and every bin holds
\* the sum of the raw bins that agree with it on the axes kept
IsMergedAndReduced(h, raw, members, keep) ==
    LET k0 == CHOOSE k \in members : TRUE
        rawAxes == raw[k0].axes
        ps == { p \in 1..Len(rawAxes) : rawAxes[p].name \in keep }
        pos == [q \in 1..Cardinality(ps) |->
                  CHOOSE p \in ps : Cardinality({ r \in ps : r < p }) = q - 1]
    IN  /\ Len(h.axes) = Cardinality(ps)
        /\ \A q \in 1..Len(h.axes) : h.axes[q] = rawAxes[pos[q]]
        /\ DOMAIN h.vals = Indices(h.axes)
        /\ \A idx \in DOMAIN h.vals :
              h.vals[idx] =
                 SumRaw({ f \in DOMAIN raw[k0].vals :
                            \A q \in 1..Len(h.axes) : f[pos[q]] = idx[q] },
                        raw, members, 0)

\* C2: an entry registered with uncertainty(func, variables=V,
\* collect_mc_data=c, **unc_kwargs) captures V (main_variables if V is
\* None), c and unc_kwargs; called on raw per-dataset histograms it calls
\* func once, with the histograms merged into {data, mc} (only if c) and
\* then each summed over every axis other than tag, ref_tag and V, with the
\* positional arguments (histograms, tag, ref_tag, *args) and with
\* unc_kwargs among the keyword arguments.
C2_EntryCall ==
    /\ last.op = "uncertainty" =>
          LET e == Entries(World, last.cfg)[Len(Entries(World, last.cfg))]
              layer == Head(e.layers)
          IN  /\ layer.variables = IF last.inp.variables.isNone
                                   THEN cfgs[last.cfg].main_variables
                                   ELSE last.inp.variables.val
              /\ layer.collect = last.inp.collect
              /\ layer.kw = last.inp.kw
              /\ Wrapped(e) = last.inp.func
    /\ last.op = "invoke" =>
          LET e == Entries(World, last.cfg)[last.inp.i]
              layer == Head(e.layers)
              self == cfgs[last.cfg]
              raw == RawHists(self, last.inp.x.reversed)
              keep == {self.tag, self.ref_tag} \cup Range(layer.variables)
          IN  /\ last.calls[1].callee = e
              /\ last.calls[1].histograms = raw
              /\ ~last.calls[1].raised
              /\ Len(last.calls) >= 2
              /\ last.calls[2].callee = Wrapped(e)
              /\ \A k \in 3..Len(last.calls) : last.calls[k].callee # Wrapped(e)
              /\ DOMAIN last.calls[2].histograms =
                    IF layer.collect THEN {"data", "mc"} ELSE DOMAIN raw
              /\ \A dt \in DOMAIN last.calls[2].histograms :
                    IsMergedAndReduced(last.calls[2].histograms[dt],
                                       last.calls[1].histograms,
                                       Members(layer.collect, dt), keep)
              /\ last.calls[2].args = <<self.tag, self.ref_tag>> \o last.inp.x.args
              /\ layer.kw \subseteq last.calls[2].kwargs
              /\ \A p \in last.inp.x.kwargs :
                    (\A q \in layer.kw : q[1] # p[1]) => p \in last.calls[2].kwargs
              /\ \A p, q \in last.calls[2].kwargs : p[1] = q[1] => p = q

\* an entry that merges the datasets, sums over an axis and has a bound
\* keyword argument that the caller gives as well has been called on a
\* configuration whose tag is not the default
C2_Witness ==
    /\ last.op = "invoke"
    /\ cfgs[last.cfg].tag # Trig
    /\ Head(last.calls[1].callee.layers).collect
    /\ \E p \in last.inp.x.kwargs : \E q \in Head(last.calls[1].callee.layers).kw :
          p[1] = q[1] /\ p # q
    /\ Len(last.calls[2].histograms["mc"].axes) < Len(last.calls[1].histograms["tt"].axes)

\* C3: stat_unc is None as long as no entry of the configuration was
\* registered with stat=True; otherwise stat_unc(hs, *args, **kwargs) calls
\* the function registered (last) with stat=True as
\* func(hs, tag, ref_tag, *args, **kwargs): the histograms as given, per
\* dataset and with all their axes, and the keyword arguments as given.
C3_StatUnc ==
    /\ \A c \in 1..Len(cfgs) : LastStat(World, c) = 0 => cfgs[c].stat_func = NoneFunc
    /\ last.op = "stat_unc" =>
          LET self == cfgs[last.cfg]
              e == Entries(World, last.cfg)[LastStat(World, last.cfg)]
              raw == RawHists(self, last.inp.x.reversed)
          IN  /\ LastStat(World, last.cfg) # 0
              /\ Len(last.calls) = 2
              /\ last.calls[1].histograms = raw
              /\ last.calls[2].callee = Wrapped(e)
              /\ last.calls[2].histograms = raw
              /\ last.calls[2].args = <<self.tag, self.ref_tag>> \o last.inp.x.args
              /\ last.calls[2].kwargs = last.inp.x.kwargs

\* stat_unc has been called where the entry of the same function sums over
\* an axis and binds a keyword argument
C3_Witness ==
    /\ last.op = "stat_unc"
    /\ LastStat(World, last.cfg) # 0
    /\ LET layer == Head(Entries(World, last.cfg)[LastStat(World, last.cfg)].layers)
       IN  /\ layer.kw # {}
           /\ Len(layer.variables) < Len(cfgs[last.cfg].variables)
    /\ last.inp.x.kwargs # {}


-----------------------------------------------------------------------------
(* The constructor on its own: TriggerSFConfig(...) for many arguments *)

Other == <<"m","e","t">>          \* a name that is no variable

SeqsUpTo(S, n) == UNION { [1..k -> S] : k \in 0..n }

TriggerInputs ==
    { StrIn(HltMu), StrIn(HltMet), ListIn(<<HltMu, HltEle>>), ListIn(<<HltEle, HltEle>>),
      ListIn(<<>>), SetIn({HltMu, HltMet}) }

DatasetInputs ==
    { StrIn(DataMu), StrIn(TT), ListIn(<<DataMu, TT>>), ListIn(<<TT, TT, DataMu>>),
      SetIn({DataMu}) }

\* the arguments that decide the sets and the name
SetArgs ==
    { [triggers |-> t, ref_triggers |-> r, datasets |-> d, variables |-> <<Pt, Eta>>,
       tag |-> tag, ref_tag |-> ref_tag, config_name |-> n,
       main_variables |-> NoneV, uncertainties |-> NoneV] :
      t \in TriggerInputs, r \in { StrIn(HltMet), ListIn(<<HltMet, HltMu>>) },
      d \in DatasetInputs, tag \in { Trig, HltMu, HltMet }, ref_tag \in { Ref, HltEle },
      n \in { NoneV, Some(<<"c","f","g">>) } }

\* the arguments that decide main_variables
OrderArgs ==
    { [triggers |-> StrIn(HltMu), ref_triggers |-> StrIn(HltMet),
       datasets |-> ListIn(<<DataMu, TT>>), variables |-> v,
       tag |-> Trig, ref_tag |-> Ref, config_name |-> NoneV,
       main_variables |-> m, uncertainties |-> NoneV] :
      v \in { <<Pt, Eta, Phi>>, <<Phi, Pt>>, <<Eta, Pt, Eta>> },
      m \in { NoneV } \cup { Some(q) : q \in SeqsUpTo({Pt, Eta, Phi, Other}, MaxMainVars) } }

NextCtor == \E a \in SetArgs \cup OrderArgs : last.op = "none" /\ New(a)

SpecCtor == Init /\ [][NextCtor]_vars

\* the elements of an argument: a single name, or the items of an iterable
Elements(x) ==
    CASE x.kind = "str"  -> {x.str}
      [] x.kind = "list" -> Range(x.items)
      [] x.kind = "set"  -> x.members

\* C7 as claimed: triggers, ref_triggers and datasets are the set of the
\* elements given, a single name given as a str being the only element, and
\* config_name defaults to hlt_<tag lowercased>_ref_<ref_tag lowercased>.
C7_SetsAndName ==
    (last.op = "new" /\ ~last.raised) =>
        /\ cfgs[1].triggers = Elements(last.inp.triggers)
        /\ cfgs[1].ref_triggers = Elements(last.inp.ref_triggers)
        /\ cfgs[1].datasets = Elements(last.inp.datasets)
        /\ last.inp.config_name.isNone =>
              cfgs[1].config_name = <<"h","l","t","_">> \o StrLower(last.inp.tag)
                                    \o <<"_","r","e","f","_">> \o StrLower(last.inp.ref_tag)

\* C7 as amended: triggers and ref_triggers are the set of the elements
\* given, a single name given as a str being the only element; datasets is
\* the set of the items of the iterable given, which for a str are its
\* characters; config_name defaults as claimed and is kept when given.
C7_SetsAndNameAmended ==
    (last.op = "new" /\ ~last.raised) =>
        /\ cfgs[1].triggers = Elements(last.inp.triggers)
        /\ cfgs[1].ref_triggers = Elements(last.inp.ref_triggers)
        /\ cfgs[1].datasets =
              IF last.inp.datasets.kind = "str"
              THEN { <<last.inp.datasets.str[i]>> : i \in 1..Len(last.inp.datasets.str) }
              ELSE Elements(last.inp.datasets)
        /\ cfgs[1].config_name =
              IF last.inp.config_name.isNone
              THEN <<"h","l","t","_">> \o StrLower(last.inp.tag)
                   \o <<"_","r","e","f","_">> \o StrLower(last.inp.ref_tag)
              ELSE last.inp.config_name.val

\* a configuration built from a single trigger name, a single dataset name
\* and a tag with capitals
C7_Witness ==
    /\ last.op = "new" /\ ~last.raised
    /\ last.inp.triggers = StrIn(HltMu) /\ cfgs[1].triggers = {HltMu}
    /\ last.inp.datasets = StrIn(DataMu) /\ cfgs[1].datasets = {<<"d">>, <<"m">>}
    /\ last.inp.tag = HltMu
    /\ cfgs[1].config_name = <<"h","l","t","_","m","u","_","r","e","f","_","e","l","e">>

Count(s, x) == Cardinality({ i \in 1..Len(s) : s[i] = x })

\* C8: main_variables holds the names of the argument (of variables if the
\* argument is None), each as often as given, ordered by their first position
\* in variables, whatever the order in which they were given.
C8_MainVariablesOrder ==
    (last.op = "new" /\ ~last.raised) =>
        LET given == IF last.inp.main_variables.isNone THEN last.inp.variables
                     ELSE last.inp.main_variables.val
            got == cfgs[1].main_variables
            Pos(x) == CHOOSE i \in 1..Len(last.inp.variables) :
                         /\ last.inp.variables[i] = x
                         /\ \A j \in 1..(i - 1) : last.inp.variables[j] # x
        IN  /\ Len(got) = Len(given)
            /\ \A x \in Range(given) \cup Range(got) : Count(got, x) = Count(given, x)
            /\ \A i, j \in 1..Len(got) : i < j => Pos(got[i]) <= Pos(got[j])

\* three names given in an order that is not the order of variables
C8_Witness ==
    /\ last.op = "new" /\ ~last.raised
    /\ last.inp.variables = <<Pt, Eta, Phi>>
    /\ last.inp.main_variables = Some(<<Phi, Pt, Eta>>)
    /\ cfgs[1].main_variables = <<Pt, Eta, Phi>>


-----------------------------------------------------------------------------
(* calc_stat *)

\* util.syst_hist(axes, syst_name): a histogram with the axes given and a
\* last axis syst_name with the two categories down (0) and up (1); every
\* bin starts at 0
SystHist(axes, syst_name) ==
    LET all == axes \o <<[name |-> syst_name, n |-> 2]>>
    IN  [axes |-> all, vals |-> [idx \in Indices(all) |-> 0]]

\* every index tuple of a sequence of axes in the order of numpy.ndindex:
\* the last axis runs fastest
RECURSIVE IndexSeq(_)
IndexSeq(axes) ==
    IF axes = <<>> THEN << <<>> >>
    ELSE LET rest == IndexSeq(Tail(axes))
             Block(i) == [k \in 1..Len(rest) |-> <<i>> \o rest[k]]
             RECURSIVE Blocks(_)
             Blocks(i) == IF i = Head(axes).n THEN <<>> ELSE Block(i) \o Blocks(i + 1)
         IN  Blocks(0)

\* the axes of h that are not named
LoopAxes(h, exclude_axes) ==
    SelectSeq(h.axes, LAMBDA ax : ax.name \notin exclude_axes)

\* h[idx] for a mapping idx from axis names to bin indices: the histogram of
\* the axes that idx does not name, at those bins
Slice(h, idx) ==
    LET pos == KeptPositions(h.axes, { ax.name : ax \in Range(h.axes) } \ DOMAIN idx, 1)
        axes == [k \in 1..Len(pos) |-> h.axes[pos[k]]]
        Full(sub) == [p \in 1..Len(h.axes) |->
                        IF h.axes[p].name \in DOMAIN idx THEN idx[h.axes[p].name]
                        ELSE sub[CHOOSE k \in 1..Len(pos) : pos[k] = p]]
    IN  [axes |-> axes, vals |-> [sub \in Indices(axes) |-> h.vals[Full(sub)]]]

\* a change to LoopHists: every slice is taken from the first histogram
LoopHists_FirstHistOnly(hists, exclude_axes) ==
    LET axes == LoopAxes(hists[1], exclude_axes)
        seq == IndexSeq(axes)
    IN  [k \in 1..Len(seq) |->
           LET idx == [name \in { ax.name : ax \in Range(axes) } |->
                         seq[k][CHOOSE p \in 1..Len(axes) : axes[p].name = name]]
           IN  [idx |-> idx, hist_bins |-> [j \in 1..Len(hists) |-> Slice(hists[1], idx)]]]

\* util.loop_hists(*hists, exclude_axes): for every combination of bins of
\* the axes of the first histogram that are not excluded, the mapping from
\* axis name to bin index and the slice of every histogram there
LoopHists(hists, exclude_axes) ==
    LET axes == LoopAxes(hists[1], exclude_axes)
        seq == IndexSeq(axes)
    IN  [k \in 1..Len(seq) |->
           LET idx == [name \in { ax.name : ax \in Range(axes) } |->
                         seq[k][CHOOSE p \in 1..Len(axes) : axes[p].name = name]]
           IN  [idx |-> idx, hist_bins |-> [j \in 1..Len(hists) |-> Slice(hists[j], idx)]]]

\* idx.pop(key): the mapping without the key
Pop(idx, key) == [name \in DOMAIN idx \ {key} |-> idx[name]]

\* h[sum] of a histogram of one axis
SumBins(h) == SumOver(DOMAIN h.vals, h.vals)

\* a bug: the counts of the simulation come first
StatInputs_McFirst(hist_bins) ==
    << hist_bins[2].vals[<<1>>], SumBins(hist_bins[2]),
       hist_bins[1].vals[<<1>>], SumBins(hist_bins[1]) >>

\* line 76: [h[bn].value for h in hist_bins for bn in [1, sum]]
StatInputs(hist_bins) ==
    << hist_bins[1].vals[<<1>>], SumBins(hist_bins[1]),
       hist_bins[2].vals[<<1>>], SumBins(hist_bins[2]) >>

\* a bug: a bin is skipped when nothing in it passed the reference trigger
StatSkips_EmptyBins(item, ref_trigger) ==
    \/ item.idx[ref_trigger] = 0
    \/ SumBins(item.hist_bins[1]) = 0 /\ SumBins(item.hist_bins[2]) = 0

\* lines 72-73: if not idx.pop(ref_trigger): continue
StatSkips(item, ref_trigger) == item.idx[ref_trigger] = 0

\* error_func is an argument of calc_stat: any function from four counts to
\* a pair.  The one used here returns a different pair of positive numbers
\* for every four counts, so that a bin tells which call filled it.
ErrorFunc(inputs) ==
    LET code == inputs[1] + 50 * (inputs[2] + 50 * (inputs[3] + 50 * inputs[4]))
    IN  <<2 * code + 1, 2 * code + 2>>

\* lines 79-83: the (down, up) bins of out_hist at idx are set to the pair
StoreBand(out_hist, idx, pair) ==
    [out_hist EXCEPT !.vals =
        [full \in DOMAIN out_hist.vals |->
           IF \A p \in 1..(Len(out_hist.axes) - 1) : full[p] = idx[out_hist.axes[p].name]
           THEN pair[full[Len(out_hist.axes)] + 1]
           ELSE out_hist.vals[full]]]

\* the histograms calc_stat is called on: axes tag, ref_tag and pt in some
\* order; base gives the counts of a filled bin of pt, empty names the bins
\* of pt where the data are empty, and mc_too tells whether the simulation
\* is empty there as well
StatAxes(order) ==
    LET trig == [name |-> Trig, n |-> NTrigBins]
        ref == [name |-> Ref, n |-> NTrigBins]
        pt == [name |-> Pt, n |-> NVarBins]
    IN  CASE order = 1 -> <<trig, ref, pt>>
          [] order = 2 -> <<pt, ref, trig>>
          [] order = 3 -> <<ref, pt, trig>>

StatHists(order, base, empty, mc_too) ==
    LET axes == StatAxes(order)
        At(idx, name) == idx[CHOOSE p \in 1..Len(axes) : axes[p].name = name]
        Cell(idx) == base[<<At(idx, Trig), At(idx, Ref)>>]
    IN  [dt \in {"data", "mc"} |->
           [axes |-> axes,
            vals |-> [idx \in Indices(axes) |->
                        IF dt = "data"
                        THEN IF At(idx, Pt) \in empty THEN 0 ELSE Cell(idx) + At(idx, Pt)
                        ELSE IF At(idx, Pt) \in empty /\ mc_too THEN 0
                             ELSE 2 * Cell(idx) + At(idx, Pt) + 1]]]

InitStat ==
    /\ cfgs = <<>>
    /\ lists = <<>>
    /\ sets = <<>>
    /\ last = Done("none", 0, FALSE, <<>>, <<>>)
    /\ \E order \in 1..3, base \in [(0..1) \X (0..1) -> 0..MaxCount],
          empty \in SUBSET (0..(NVarBins - 1)), mc_too \in BOOLEAN :
          frame = [pc |-> "called",
                   histograms |-> StatHists(order, base, empty, mc_too),
                   trigger |-> Trig, ref_trigger |-> Ref,
                   out_hist |-> SystHist(<<>>, <<>>),
                   todo |-> <<>>, calls |-> <<>>, yielded |-> <<>>]

\* lines 64-70: out_hist is made and the loop is set up
StatEnter ==
    /\ frame.pc = "called"
    /\ frame' = [frame EXCEPT
                   !.pc = "loop",
                   !.out_hist = SystHist(LoopAxes(frame.histograms["data"],
                                                  {frame.trigger, frame.ref_trigger}),
                                         <<"s","t","a","t">>),
                   !.todo = LoopHists(<<frame.histograms["data"], frame.histograms["mc"]>>,
                                      {frame.trigger}),
                   !.yielded = <<[hists |-> <<frame.histograms["data"], frame.histograms["mc"]>>,
                                  exclude_axes |-> {frame.trigger},
                                  pairs |-> LoopHists(<<frame.histograms["data"],
                                                        frame.histograms["mc"]>>,
                                                      {frame.trigger})]>>]
    /\ UNCHANGED <<cfgs, lists, sets, last>>

\* lines 70-83: one pass of the loop
StatStep ==
    /\ frame.pc = "loop"
    /\ frame.todo # <<>>
    /\ LET item == Head(frame.todo)
           idx == Pop(item.idx, frame.ref_trigger)
           inputs == StatInputs(item.hist_bins)
       IN  IF StatSkips(item, frame.ref_trigger)
           THEN frame' = [frame EXCEPT !.todo = Tail(@)]
           ELSE frame' = [frame EXCEPT
                            !.todo = Tail(@),
                            !.calls = Append(@, [idx |-> idx, inputs |-> inputs]),
                            !.out_hist = StoreBand(@, idx, ErrorFunc(inputs))]
    /\ UNCHANGED <<cfgs, lists, sets, last>>

\* line 85: return out_hist
StatReturn ==
    /\ frame.pc = "loop"
    /\ frame.todo = <<>>
    /\ frame' = [frame EXCEPT !.pc = "returned"]
    /\ UNCHANGED <<cfgs, lists, sets, last>>

NextStat == StatEnter \/ StatStep \/ StatReturn

SpecStat == InitStat /\ [][NextStat]_vars


\* the count of h in bin b of pt with the given bins of the trigger axes
CountAt(h, tr, rf, b) ==
    h.vals[[p \in 1..Len(h.axes) |->
              CASE h.axes[p].name = Trig -> tr
                [] h.axes[p].name = Ref -> rf
                [] OTHER -> b]]

\* the four counts of bin b of pt, from the histograms calc_stat was given
RefCounts(b) ==
    LET data == frame.histograms["data"]
        mc == frame.histograms["mc"]
    IN  << CountAt(data, 1, 1, b), CountAt(data, 0, 1, b) + CountAt(data, 1, 1, b),
           CountAt(mc, 1, 1, b), CountAt(mc, 0, 1, b) + CountAt(mc, 1, 1, b) >>

\* the (down, up) values of bin b of the output
Band(out_hist, b) == <<out_hist.vals[<<b, 0>>], out_hist.vals[<<b, 1>>]>>

VarBins == 0..(NVarBins - 1)

\* C9: calc_stat calls error_func once for every bin of the variables, with
\* the counts (data trigger and ref, data ref, mc trigger and ref, mc ref)
\* of that bin, a ref count being the sum over both trigger bins where the
\* reference trigger fired, and the (down, up) values of that bin of the
\* output are the pair error_func returned.
C9_StatBins ==
    /\ \A k \in DOMAIN frame.calls :
          LET b == frame.calls[k].idx[Pt]
          IN  /\ DOMAIN frame.calls[k].idx = {Pt}
              /\ frame.calls[k].inputs = RefCounts(b)
              /\ Band(frame.out_hist, b) = ErrorFunc(RefCounts(b))
              /\ \A j \in DOMAIN frame.calls : frame.calls[j].idx[Pt] = b => j = k
    /\ frame.pc = "returned" =>
          \A b \in VarBins : \E k \in DOMAIN frame.calls : frame.calls[k].idx[Pt] = b

C9_Witness ==
    /\ frame.pc = "returned"
    /\ Len(frame.calls) = NVarBins
    /\ \E k \in DOMAIN frame.calls :
          LET c == frame.calls[k].inputs
          IN  /\ 0 < c[1] /\ c[1] < c[2] /\ c[2] < c[3] /\ c[3] < c[4]
              /\ Band(frame.out_hist, frame.calls[k].idx[Pt]) = ErrorFunc(c)

\* C10 as stated: for a bin of the variables whose ref counts are zero in
\* data and simulation, error_func is not called and the bin of the output
\* keeps the value it was made with.
C10_EmptyBinsUntouched ==
    frame.pc # "called" =>
        \A b \in VarBins :
            (RefCounts(b)[2] = 0 /\ RefCounts(b)[4] = 0) =>
                /\ \A k \in DOMAIN frame.calls : frame.calls[k].idx[Pt] # b
                /\ Band(frame.out_hist, b) = <<0, 0>>

\* C10: a pass of the loop is skipped exactly when it is at bin 0 of the
\* ref_trigger axis, whatever the counts: such a pass calls nothing and
\* leaves the output alone, and every other pass calls error_func, so that
\* a bin of the variables whose ref counts are zero in data and simulation
\* gets what error_func returns for (0, 0, 0, 0).
C10_SkipsByRefIndex ==
    [][(frame.pc = "loop" /\ frame.todo # <<>>) =>
        LET item == Head(frame.todo)
            b == item.idx[Pt]
        IN  IF item.idx[Ref] = 0
            THEN /\ frame'.calls = frame.calls
                 /\ frame'.out_hist = frame.out_hist
            ELSE /\ Len(frame'.calls) = Len(frame.calls) + 1
                 /\ frame'.calls[Len(frame'.calls)].idx[Pt] = b
                 /\ (RefCounts(b)[2] = 0 /\ RefCounts(b)[4] = 0) =>
                       /\ frame'.calls[Len(frame'.calls)].inputs = <<0, 0, 0, 0>>
                       /\ Band(frame'.out_hist, b) = ErrorFunc(<<0, 0, 0, 0>>)]_vars

C10_Witness ==
    /\ frame.pc = "returned"
    /\ \E k \in DOMAIN frame.calls :
          /\ frame.calls[k].inputs = <<0, 0, 0, 0>>
          /\ Band(frame.out_hist, frame.calls[k].idx[Pt]) = ErrorFunc(<<0, 0, 0, 0>>)
    /\ \E k \in DOMAIN frame.calls : frame.calls[k].inputs[2] > 0


-----------------------------------------------------------------------------
(* Numbers.  The value of a bin that is computed by division is the        *)
(* fraction [n, d] in lowest terms with d > 0; a value that is not a finite *)
(* number (a division by zero and whatever is computed from it: numpy's nan *)
(* and inf) is NotFinite, and every operation on it gives NotFinite.        *)

NotFinite == [n |-> 0, d |-> 0]

RECURSIVE Gcd(_, _)
Gcd(a, b) == IF b = 0 THEN a ELSE Gcd(b, a % b)

Abs(x) == IF x < 0 THEN -x ELSE x

Frac(n, d) ==
    IF d = 0 THEN NotFinite
    ELSE LET g == Gcd(Abs(n), Abs(d))
             s == IF d < 0 THEN -1 ELSE 1
         IN  [n |-> s * (n \div g), d |-> s * (d \div g)]

Whole(x) == [n |-> x, d |-> 1]

IsFinite(a) == a.d # 0

\* a + b, a - b, a * b, a / b on floats
FAdd(a, b) == IF IsFinite(a) /\ IsFinite(b) THEN Frac(a.n * b.d + b.n * a.d, a.d * b.d) ELSE NotFinite
FSub(a, b) == IF IsFinite(a) /\ IsFinite(b) THEN Frac(a.n * b.d - b.n * a.d, a.d * b.d) ELSE NotFinite
FMul(a, b) == IF IsFinite(a) /\ IsFinite(b) THEN Frac(a.n * b.n, a.d * b.d) ELSE NotFinite
FDiv(a, b) == IF IsFinite(a) /\ IsFinite(b) THEN Frac(a.n * b.d, a.d * b.n) ELSE NotFinite

\* np.abs
FAbs(a) == [n |-> Abs(a.n), d |-> a.d]

\* a <= b for finite a and b
FLeq(a, b) == a.n * b.d <= b.n * a.d

\* np.max and np.min over the values in S: nan if one of them is
FMax(S) == IF \E a \in S : ~IsFinite(a) THEN NotFinite
           ELSE CHOOSE a \in S : \A b \in S : FLeq(b, a)
FMin(S) == IF \E a \in S : ~IsFinite(a) THEN NotFinite
           ELSE CHOOSE a \in S : \A b \in S : FLeq(a, b)

-----------------------------------------------------------------------------
(* Histogram operations of the calculators *)

\* the position of the axis called name
AxisPos(h, name) == CHOOSE p \in 1..Len(h.axes) : h.axes[p].name = name

HasAxis(h, name) == \E p \in 1..Len(h.axes) : h.axes[p].name = name

\* h.project(*names): the axes named, in the order of names, summed over
\* every other axis
ProjectOnto(h, names) == Project(h, [k \in 1..Len(names) |-> AxisPos(h, names[k])])

\* h[{t: sum for t in names}]: summed over the axes named
SumAxes(h, names) ==
    Project(h, KeptPositions(h.axes, { ax.name : ax \in Range(h.axes) } \ names, 1))

\* util.reduce_hist(h, reduce=names): summed over the axes named; names that
\* are no axis of h are ignored
ReduceAxes(h, names) == SumAxes(h, names)

\* the values of h as floats
AsFloats(h) == [axes |-> h.axes, vals |-> [idx \in DOMAIN h.vals |-> Whole(h.vals[idx])]]

\* util.calculate_efficiency(h, trigger, ref_trigger): for every bin of the
\* other axes, N(trigger and ref_trigger) / N(ref_trigger)
CalculateEfficiency(h, trigger, ref_trigger) ==
    LET passed == Slice(h, [name \in {ref_trigger} |-> 1])
        fired == Slice(passed, [name \in {trigger} |-> 1])
        all == SumAxes(passed, {trigger})
    IN  [axes |-> fired.axes,
         vals |-> [idx \in DOMAIN fired.vals |->
                     FDiv(Whole(fired.vals[idx]), Whole(all.vals[idx]))]]

\* a change to SystHistOf: the variation axis comes first
SystHistOf_Prepends(axes, syst_name, arrays) ==
    LET all == <<[name |-> syst_name, n |-> 2]>> \o axes
    IN  [axes |-> all,
         vals |-> [idx \in Indices(all) |-> arrays[idx[1] + 1][Tail(idx)]]]

\* util.syst_hist(axes, syst_name, arrays=(down, up)): the histogram of
\* SystHist with the two arrays as the values of its two categories
SystHistOf(axes, syst_name, arrays) ==
    LET all == axes \o <<[name |-> syst_name, n |-> 2]>>
    IN  [axes |-> all,
         vals |-> [idx \in Indices(all) |->
                     arrays[idx[Len(all)] + 1][SubSeq(idx, 1, Len(axes))]]]

\* h[idx] = value for a mapping idx from axis names to bin indices: every
\* bin of h at those indices holds the value
FillAt(h, idx, value) ==
    [h EXCEPT !.vals =
        [full \in DOMAIN h.vals |->
           IF \A p \in 1..Len(h.axes) :
                 h.axes[p].name \in DOMAIN idx => full[p] = idx[h.axes[p].name]
           THEN value ELSE h.vals[full]]]


-----------------------------------------------------------------------------
(* calc_corr *)

\* sep.join(names)
RECURSIVE Join(_, _)
Join(names, sep) ==
    IF names = <<>> THEN <<>>
    ELSE IF Len(names) = 1 THEN names[1]
    ELSE names[1] \o sep \o Join(Tail(names), sep)

CorrKey == <<"c","o","r","r">>

\* a bug: the name is made from corr_variables as given
AutoTag_FromArgument(corr_vars, corr_variables) ==
    CorrKey \o (IF corr_variables = <<>> THEN <<>> ELSE <<"_">> \o Join(corr_variables, <<"_">>))

\* line 183: "corr" + ("" if not corr_vars else ("_" + "_".join(corr_vars)))
AutoTag(corr_vars, corr_variables) ==
    CorrKey \o (IF corr_vars = <<>> THEN <<>> ELSE <<"_">> \o Join(corr_vars, <<"_">>))

\* a bug: a key that is there already is kept
Put_KeepsOld(m, key, value) ==
    [k \in DOMAIN m \cup {key} |-> IF k \in DOMAIN m THEN m[k] ELSE value]

\* m[key] = value on a dict
Put(m, key, value) ==
    [k \in DOMAIN m \cup {key} |-> IF k = key THEN value ELSE m[k]]

\* hist.Hist.new.IntCategory([0]).Weight(): one bin on an axis without name
InclusiveHist == [axes |-> <<[name |-> <<>>, n |-> 1]>>, vals |-> [idx \in {<<0>>} |-> Whole(0)]]

\* corr_func is an argument of calc_corr: any function of a histogram of the
\* axes (trigger, ref_trigger).  The one used here tells the two axes apart
\* and gives a positive fraction below 1.
CorrFunc(h) ==
    Frac(h.vals[<<1, 0>>] + 2 * h.vals[<<0, 1>>] + 1, 2 * SumBins(h) + 3)

\* a bug: the factor of a bin is written to the bins of the full binning
\* only where the histogram has all its variables among corr_variables
Broadcast_OnlyFullIndex(unred_corr_hist, idx, c) ==
    IF \A p \in 1..Len(unred_corr_hist.axes) : unred_corr_hist.axes[p].name \in DOMAIN idx
    THEN FillAt(unred_corr_hist, idx, c)
    ELSE [unred_corr_hist EXCEPT !.vals = [full \in DOMAIN unred_corr_hist.vals |-> Whole(0)]]

\* line 179: unred_corr_hist[idx] = np.full_like(unred_corr_hist[idx], c)
Broadcast(unred_corr_hist, idx, c) == FillAt(unred_corr_hist, idx, c)

\* a bug: the band is put around zero and not around the scale factor
CorrBand_AroundZero(sf, unred_corr_hist) ==
    << [idx \in DOMAIN sf |-> FSub(Whole(0), FMul(sf[idx], unred_corr_hist.vals[idx]))],
       [idx \in DOMAIN sf |-> FMul(sf[idx], unred_corr_hist.vals[idx])] >>

\* line 191: [sf - sf * unred_corr_hist.values(), sf + sf * unred_corr_hist.values()]
CorrBand(sf, unred_corr_hist) ==
    << [idx \in DOMAIN sf |-> FSub(sf[idx], FMul(sf[idx], unred_corr_hist.vals[idx]))],
       [idx \in DOMAIN sf |-> FAdd(sf[idx], FMul(sf[idx], unred_corr_hist.vals[idx]))] >>

\* lines 187-188: the efficiencies and their ratio, bin by bin
ScaleFactors(histograms, trigger, ref_trigger) ==
    LET eff == [dt \in DOMAIN histograms |->
                  CalculateEfficiency(histograms[dt], trigger, ref_trigger)]
    IN  [idx \in DOMAIN eff["data"].vals |-> FDiv(eff["data"].vals[idx], eff["mc"].vals[idx])]

NoHist == [axes |-> <<>>, vals |-> <<>>]

Mine == <<"m","i","n","e">>
CorrPt == <<"c","o","r","r","_","p","t">>

\* the keyword arguments an entry binds for calc_corr
CorrKwargs ==
    { [corr_variables |-> <<>>, tag |-> NoneV],
      [corr_variables |-> <<Pt>>, tag |-> NoneV],
      [corr_variables |-> <<Eta, Pt>>, tag |-> NoneV],
      [corr_variables |-> <<Phi>>, tag |-> NoneV],
      [corr_variables |-> <<Pt>>, tag |-> Some(Mine)],
      [corr_variables |-> <<Eta>>, tag |-> Some(CorrPt)] }

\* the entries of a configuration, in the order of their registration
CorrEntries ==
    { <<a>> : a \in CorrKwargs } \cup { <<a, b>> : a \in CorrKwargs, b \in CorrKwargs }

\* the axes of the histograms the entries are called on: tag, ref_tag, pt and
\* eta in some order
CorrAxes(order) ==
    LET trig == [name |-> Trig, n |-> NTrigBins]
        ref == [name |-> Ref, n |-> NTrigBins]
        pt == [name |-> Pt, n |-> NVarBins]
        eta == [name |-> Eta, n |-> NTrigBins]
    IN  IF order = 1 THEN <<trig, ref, pt, eta>> ELSE <<eta, ref, pt, trig>>

\* counts that differ from bin to bin; with k = 0 no bin of the simulation
\* is empty
CorrHists(order, k) ==
    LET axes == CorrAxes(order)
        At(idx, name) == idx[CHOOSE p \in 1..Len(axes) : axes[p].name = name]
        W(idx) == At(idx, Trig) + 2 * At(idx, Ref) + 4 * At(idx, Eta) + 8 * At(idx, Pt)
    IN  [dt \in {"data", "mc"} |->
           [axes |-> axes,
            vals |-> [idx \in Indices(axes) |->
                        IF dt = "data" THEN 1 + ((W(idx) + k) % 3)
                        ELSE IF k = 0 THEN 1 + (W(idx) % 4)
                        ELSE (W(idx) * k + At(idx, Eta)) % (MaxCount + 2)]]]

\* what store_hists holds before the first entry is called
OldHist == [axes |-> <<[name |-> Phi, n |-> 1]>>, vals |-> [idx \in {<<0>>} |-> Whole(7)]]

StoreInputs ==
    { <<>>, [key \in {CorrKey, CorrPt, <<"o","l","d">>} |-> OldHist] }

InitCorr ==
    /\ cfgs = <<>>
    /\ lists = <<>>
    /\ sets = <<>>
    /\ last = Done("none", 0, FALSE, <<>>, <<>>)
    /\ \E order \in 1..2, k \in 0..MaxCount, entries \in CorrEntries, store \in StoreInputs :
          frame = [pc |-> "corr_called", cur |-> 1, entries |-> entries,
                   histograms |-> CorrHists(order, k),
                   trigger |-> Trig, ref_trigger |-> Ref,
                   store_hists |-> store, before |-> <<store>>,
                   mc_hist |-> NoHist, unred_corr_hist |-> NoHist, corr_hist |-> NoHist,
                   corr_vars |-> <<>>, tag |-> <<>>, todo |-> <<>>, returned |-> <<>>,
                   yielded |-> <<>>]

\* lines 141-166: the histograms of the call are made and the loop is set up
CorrEnter ==
    /\ frame.pc = "corr_called"
    /\ LET kw == frame.entries[frame.cur]
           triggers == <<frame.trigger, frame.ref_trigger>>
           unred == AsFloats(SumAxes(frame.histograms["mc"], Range(triggers)))
           mc_hist == ReduceHist(frame.histograms["mc"], Range(triggers \o kw.corr_variables))
           corr_vars == SelectSeq(AxisNames(mc_hist), LAMBDA name : name \notin Range(triggers))
       IN  frame' = [frame EXCEPT
                       !.pc = "corr_loop",
                       !.unred_corr_hist = unred,
                       !.mc_hist = mc_hist,
                       !.corr_vars = corr_vars,
                       !.corr_hist = IF corr_vars # <<>>
                                     THEN AsFloats(ProjectOnto(mc_hist, corr_vars))
                                     ELSE InclusiveHist,
                       !.todo = LoopHists(<<mc_hist>>, Range(triggers)),
                       !.yielded = Append(@, [hists |-> <<mc_hist>>,
                                              exclude_axes |-> Range(triggers),
                                              pairs |-> LoopHists(<<mc_hist>>, Range(triggers))])]
    /\ UNCHANGED <<cfgs, lists, sets, last>>

\* lines 166-179: one pass of the loop
CorrStep ==
    /\ frame.pc = "corr_loop"
    /\ frame.todo # <<>>
    /\ LET item == Head(frame.todo)
           c == CorrFunc(ProjectOnto(item.hist_bins[1], <<frame.trigger, frame.ref_trigger>>))
       IN  frame' = [frame EXCEPT
                       !.todo = Tail(@),
                       !.corr_hist = FillAt(@, item.idx, c),
                       !.unred_corr_hist = Broadcast(@, item.idx, c)]
    /\ UNCHANGED <<cfgs, lists, sets, last>>

\* lines 182-184: the correlation histogram is stored
CorrStore ==
    /\ frame.pc = "corr_loop"
    /\ frame.todo = <<>>
    /\ LET kw == frame.entries[frame.cur]
           tag == IF kw.tag.isNone THEN AutoTag(frame.corr_vars, kw.corr_variables)
                  ELSE kw.tag.val
       IN  frame' = [frame EXCEPT
                       !.pc = "corr_stored",
                       !.tag = tag,
                       !.store_hists = Put(@, tag, frame.corr_hist)]
    /\ UNCHANGED <<cfgs, lists, sets, last>>

\* lines 187-196: the band is made and returned; the next entry, if there is
\* one, is called on the same store_hists
CorrReturn ==
    /\ frame.pc = "corr_stored"
    /\ LET sf == ScaleFactors(frame.histograms, frame.trigger, frame.ref_trigger)
           sf_vars == SystHistOf(frame.unred_corr_hist.axes, frame.tag,
                                 CorrBand(sf, frame.unred_corr_hist))
       IN  frame' = [frame EXCEPT
                       !.pc = IF frame.cur < Len(frame.entries) THEN "corr_called" ELSE "corr_done",
                       !.cur = IF frame.cur < Len(frame.entries) THEN @ + 1 ELSE @,
                       !.returned = Append(@, sf_vars),
                       !.before = Append(@, frame.store_hists)]
    /\ UNCHANGED <<cfgs, lists, sets, last>>

NextCorr == CorrEnter \/ CorrStep \/ CorrStore \/ CorrReturn

SpecCorr == InitCorr /\ [][NextCorr]_vars


-----------------------------------------------------------------------------
(* Properties of calc_corr, stated on the histograms it was called on *)

TriggerNames == {frame.trigger, frame.ref_trigger}

\* the axes of h that are binning variables, in their order
VarAxes(h) == SelectSeq(h.axes, LAMBDA ax : ax.name \notin TriggerNames)

\* the bin of h at bins tr and rf of the trigger axes and bin b of the others
FullIndex(h, tr, rf, b) ==
    [p \in 1..Len(h.axes) |->
       IF h.axes[p].name = frame.trigger THEN tr
       ELSE IF h.axes[p].name = frame.ref_trigger THEN rf
       ELSE b[CHOOSE q \in 1..Len(VarAxes(h)) : VarAxes(h)[q].name = h.axes[p].name]]

\* data efficiency over simulated efficiency in bin b
NominalSF(b) ==
    LET Eff(h) == FDiv(Whole(h.vals[FullIndex(h, 1, 1, b)]),
                       Whole(h.vals[FullIndex(h, 0, 1, b)] + h.vals[FullIndex(h, 1, 1, b)]))
    IN  FDiv(Eff(frame.histograms["data"]), Eff(frame.histograms["mc"]))

\* the axes among corr_variables that the simulated histogram has
PresentAxes(kw) ==
    SelectSeq(VarAxes(frame.histograms["mc"]), LAMBDA ax : ax.name \in Range(kw.corr_variables))

\* the bins of the full binning that lie in the same bin of the
\* correlation variables as b
SameCorrBin(kw, b) ==
    LET mc == frame.histograms["mc"]
        va == VarAxes(mc)
    IN  { x \in Indices(va) :
            \A q \in 1..Len(va) : va[q].name \in Range(kw.corr_variables) => x[q] = b[q] }

\* corr_func of the simulated counts in the bin of the correlation
\* variables that b lies in
CorrFactor(kw, b) ==
    LET mc == frame.histograms["mc"]
        same == SameCorrBin(kw, b)
    IN  CorrFunc([axes |-> <<[name |-> frame.trigger, n |-> NTrigBins],
                             [name |-> frame.ref_trigger, n |-> NTrigBins]>>,
                  vals |-> [t \in (0..1) \X (0..1) |->
                              SumOver(same, [x \in same |-> mc.vals[FullIndex(mc, t[1], t[2], x)]])]])

AllBins == Indices(VarAxes(frame.histograms["mc"]))

\* C11: for every bin b of the binning variables calc_corr returns
\* down(b) = sf(b) - sf(b) * corr(p(b)) and up(b) = sf(b) + sf(b) * corr(p(b)),
\* sf being the ratio of the efficiencies of data and simulation and corr
\* the factor of the bin of the correlation variables that b lies in; where
\* these are finite numbers, the middle of the band is sf(b).
C11_CorrBand ==
    \A i \in 1..Len(frame.returned) :
        LET kw == frame.entries[i]
            out == frame.returned[i]
        IN  \A b \in AllBins :
               LET sf == NominalSF(b)
                   corr == CorrFactor(kw, b)
                   down == out.vals[b \o <<0>>]
                   up == out.vals[b \o <<1>>]
               IN  /\ down = FSub(sf, FMul(sf, corr))
                   /\ up = FAdd(sf, FMul(sf, corr))
                   /\ FDiv(FAdd(down, up), Whole(2)) = sf

\* a band of finite width has been returned for factors binned in pt only:
\* two bins that differ in eta have different scale factors and one factor
C11_Witness ==
    /\ Len(frame.returned) >= 1
    /\ frame.entries[1].corr_variables = <<Pt>>
    /\ \E b, x \in AllBins :
          /\ b # x
          /\ x \in SameCorrBin(frame.entries[1], b)
          /\ IsFinite(NominalSF(b)) /\ IsFinite(NominalSF(x))
          /\ NominalSF(b) # NominalSF(x)
          /\ NominalSF(b).n > 0
          /\ frame.returned[1].vals[b \o <<0>>] # frame.returned[1].vals[b \o <<1>>]
          /\ frame.returned[1].vals[b \o <<1>>] =
                FAdd(NominalSF(b), FMul(NominalSF(b), CorrFactor(frame.entries[1], x)))

\* the key that call kw writes
KeyOf(kw) ==
    IF ~kw.tag.isNone THEN kw.tag.val
    ELSE IF PresentAxes(kw) = <<>> THEN <<"c","o","r","r">>
    ELSE <<"c","o","r","r","_">> \o
         Join([q \in 1..Len(PresentAxes(kw)) |-> PresentAxes(kw)[q].name], <<"_">>)

\* h is the correlation histogram of call kw: binned in the correlation
\* variables of the histogram (one bin if there are none), every bin holding
\* the factor of that bin
IsCorrHist(h, kw) ==
    LET va == VarAxes(frame.histograms["mc"])
    IN  IF PresentAxes(kw) = <<>>
        THEN /\ Len(h.axes) = 1 /\ h.axes[1].n = 1
             /\ DOMAIN h.vals = {<<0>>}
             /\ h.vals[<<0>>] = CorrFactor(kw, CHOOSE b \in AllBins : TRUE)
        ELSE /\ h.axes = PresentAxes(kw)
             /\ DOMAIN h.vals = Indices(h.axes)
             /\ \A b \in AllBins :
                   LET p == [q \in 1..Len(h.axes) |->
                               b[CHOOSE r \in 1..Len(va) : va[r].name = h.axes[q].name]]
                   IN  h.vals[p] = CorrFactor(kw, b)

\* C12: a call of calc_corr changes store_hists in exactly one key: tag if
\* it is given, otherwise "corr" when the histogram has none of the
\* correlation variables and "corr_" with the names of those it has, in the
\* order of its axes and joined by "_", when it has some.  That key maps to
\* the correlation histogram binned in those variables, whatever it mapped
\* to before, and every other key maps to what it mapped to before.
C12_StoreOneKey ==
    \A i \in 1..Len(frame.returned) :
        LET kw == frame.entries[i]
            old == frame.before[i]
            new == frame.before[i + 1]
        IN  /\ DOMAIN new = DOMAIN old \cup {KeyOf(kw)}
            /\ \A k \in DOMAIN old : k # KeyOf(kw) => new[k] = old[k]
            /\ IsCorrHist(new[KeyOf(kw)], kw)

\* a call without tag and with two correlation variables given in the
\* opposite order of the axes has replaced an old value and left another
C12_Witness ==
    /\ Len(frame.returned) >= 1
    /\ frame.entries[1] = [corr_variables |-> <<Eta, Pt>>, tag |-> NoneV]
    /\ frame.histograms["mc"].axes[1].name = Trig
    /\ <<"c","o","r","r","_","p","t","_","e","t","a">> \in DOMAIN frame.before[2]
    /\ CorrPt \in DOMAIN frame.before[2]
    /\ frame.before[2][CorrPt] = frame.before[1][CorrPt]

\* the calls that write key k
Writers(k) == { i \in 1..Len(frame.entries) : KeyOf(frame.entries[i]) = k }

\* C13: when the entries of a configuration have been called one after the
\* other, in the order of their registration, on one store_hists, what
\* store_hists holds is fixed by the configuration, the histograms and what
\* it held before: under every key written, the correlation histogram of
\* the last entry registered that writes it, and under every other key what
\* was there.
C13_LaterEntryWins ==
    frame.pc = "corr_done" =>
        /\ DOMAIN frame.store_hists =
              DOMAIN frame.before[1] \cup { KeyOf(frame.entries[i]) : i \in 1..Len(frame.entries) }
        /\ \A k \in DOMAIN frame.store_hists :
              IF Writers(k) = {} THEN frame.store_hists[k] = frame.before[1][k]
              ELSE IsCorrHist(frame.store_hists[k], frame.entries[Max(Writers(k))])

\* two entries have written the same key, and what the first wrote differs
\* from what is there at the end
C13_Witness ==
    /\ frame.pc = "corr_done"
    /\ Len(frame.entries) = 2
    /\ KeyOf(frame.entries[1]) = KeyOf(frame.entries[2])
    /\ frame.before[2][KeyOf(frame.entries[1])] # frame.store_hists[KeyOf(frame.entries[1])]


-----------------------------------------------------------------------------
(* calc_auxiliary_unc *)

\* the keys of dev_funcs
DevFuncNames == {"max_dev_sym", "max_dev", "std"}

\* dev_func as a name, and as a function of the caller
Named(name) == [kind |-> "name", name |-> name]
Callable(name) == [kind |-> "callable", name |-> name]

\* a bug: a name that is not registered stands for max_dev_sym
DevFuncLookup_Defaults(dev_func) ==
    IF dev_func.kind = "name" /\ dev_func.name \notin DevFuncNames
    THEN [raised |-> "none", func |-> Named("max_dev_sym")]
    ELSE [raised |-> "none", func |-> dev_func]

\* lines 257-258: dev_funcs[dev_func] for a str, a KeyError if it is no key
DevFuncLookup(dev_func) ==
    IF dev_func.kind = "name" /\ dev_func.name \notin DevFuncNames
    THEN [raised |-> "KeyError", func |-> dev_func]
    ELSE [raised |-> "none", func |-> dev_func]

\* Hist / array (lines 262 and 267): the histogram with every bin divided by
\* the value at the same index; a ValueError if the array has not the
\* number of dimensions and the shape of the histogram
DivideHist(h, arr) ==
    IF Len(h.axes) = Len(arr.axes) /\ \A p \in 1..Len(h.axes) : h.axes[p].n = arr.axes[p].n
    THEN [raised |-> "none",
          hist |-> [axes |-> h.axes,
                    vals |-> [idx \in DOMAIN h.vals |-> FDiv(h.vals[idx], arr.vals[idx])]]]
    ELSE [raised |-> "ValueError", hist |-> NoHist]

\* line 269: the positions (from 0) of the auxiliaries among the axes of
\* sf_aux, as a list; tuple.index raises a ValueError for a name that is
\* no axis
AuxIdx(sf_aux, auxiliaries) ==
    IF \A i \in 1..Len(auxiliaries) : HasAxis(sf_aux, auxiliaries[i])
    THEN [raised |-> "none",
          idx |-> [i \in 1..Len(auxiliaries) |-> AxisPos(sf_aux, auxiliaries[i]) - 1]]
    ELSE [raised |-> "ValueError", idx |-> <<>>]

\* the index of sf that a bin of sf_aux belongs to: np.expand_dims puts an
\* axis of length 1 at every position in aux_idx
NominalIndex(full, aux_idx) ==
    LET keep == SelectSeq([p \in 1..Len(full) |-> p], LAMBDA p : (p - 1) \notin Range(aux_idx))
    IN  [q \in 1..Len(keep) |-> full[keep[q]]]

\* line 270: sf_aux.values() - np.expand_dims(sf.values(), axis=aux_idx)
Deviations(sf_aux, sf, aux_idx) ==
    [full \in DOMAIN sf_aux.vals |->
       FSub(sf_aux.vals[full], sf.vals[NominalIndex(full, aux_idx)])]

\* the deviations of the auxiliary bins of one bin of sf
AlongAux(dev, nominal, aux_idx) ==
    { dev[full] : full \in { f \in DOMAIN dev : NominalIndex(f, aux_idx) = nominal } }

\* lines 200-201 with 271-272: what max_dev_sym and max_dev make of the
\* deviations S along the auxiliary axes, as the pair (down, up)
Reduced(name, S) ==
    IF name = "max_dev_sym" THEN LET m == FMax({ FAbs(x) : x \in S }) IN <<m, m>>
    ELSE << FAbs(FMin(S)), FAbs(FMax(S)) >>

\* line 270, dev_func(dev, aux_idx).  The registered functions hand aux_idx,
\* a list, to np.max, np.min and np.std as axis, which take an int or a
\* tuple of ints and raise a TypeError for a list.  A function of the
\* caller is any function; the ones used here do what the registered ones
\* of their name do, along tuple(aux_idx).
DevFuncCall(func, dev, aux_idx, nominal) ==
    IF func.kind = "name"
    THEN [raised |-> "TypeError", dev |-> <<>>]
    ELSE [raised |-> "none",
          dev |-> [k \in 1..2 |->
                     [n \in nominal |-> Reduced(func.name, AlongAux(dev, n, aux_idx))[k]]]]

\* line 275: the axes of the band
ResultAxes(sf, sf_aux) == sf.axes

Run == <<"r","u","n">>

\* "aux" + "_".join(auxiliaries)
AuxName(auxiliaries) == <<"a","u","x">> \o Join(auxiliaries, <<"_">>)

\* the histograms: axes tag, ref_tag, pt and the auxiliary axis run with
\* naux categories, in some order
AuxAxes(order, naux) ==
    LET trig == [name |-> Trig, n |-> NTrigBins]
        ref == [name |-> Ref, n |-> NTrigBins]
        pt == [name |-> Pt, n |-> NVarBins]
        run == [name |-> Run, n |-> naux]
    IN  IF order = 1 THEN <<trig, ref, pt, run>> ELSE <<run, pt, ref, trig>>

\* counts that differ from bin to bin; with k = 0 no bin is empty
AuxHists(order, naux, k) ==
    LET axes == AuxAxes(order, naux)
        At(idx, name) == idx[CHOOSE p \in 1..Len(axes) : axes[p].name = name]
        W(idx) == At(idx, Trig) + 2 * At(idx, Ref) + 3 * At(idx, Run) + 5 * At(idx, Pt)
    IN  [dt \in {"data", "mc"} |->
           [axes |-> axes,
            vals |-> [idx \in Indices(axes) |->
                        IF dt = "data" THEN 1 + ((W(idx) + 2 * k * At(idx, Run)) % 4)
                        ELSE IF k = 0 THEN 2 + ((W(idx) + At(idx, Pt) * At(idx, Run)) % 3)
                        ELSE (W(idx) + k) % (MaxCount + 2)]]]

\* counts whose scale factors per run lie on one side of the nominal one:
\* below it in the first bin of pt, above it in the others
SkewedHists(order) ==
    LET axes == AuxAxes(order, 2)
        At(idx, name) == idx[CHOOSE p \in 1..Len(axes) : axes[p].name = name]
        Steep(tr, run) == IF run = 0 THEN (IF tr = 1 THEN 9 ELSE 1)
                          ELSE (IF tr = 1 THEN 1 ELSE 2)
        Flat(tr, run) == IF run = 0 THEN 1 ELSE (IF tr = 1 THEN 1 ELSE 9)
    IN  [dt \in {"data", "mc"} |->
           [axes |-> axes,
            vals |-> [idx \in Indices(axes) |->
                        IF At(idx, Ref) = 0 THEN 1
                        ELSE IF (dt = "data") = (At(idx, Pt) = 0)
                             THEN Steep(At(idx, Trig), At(idx, Run))
                             ELSE Flat(At(idx, Trig), At(idx, Run))]]]

AuxHistograms ==
    { AuxHists(order, naux, k) : order \in 1..2, naux \in 1..2, k \in 0..MaxCount }
        \cup { SkewedHists(order) : order \in 1..2 }

AuxInputs ==
    [auxiliaries : {<<Run>>, <<Phi>>},
     apply_aux_to : {"data", "mc", "both"},
     dev_func : { Named("max_dev_sym"), Named("max_dev"), Named("std"), Named("median"),
                  Callable("max_dev_sym"), Callable("max_dev") }]

InitAux ==
    /\ cfgs = <<>>
    /\ lists = <<>>
    /\ sets = <<>>
    /\ last = Done("none", 0, FALSE, <<>>, <<>>)
    /\ \E h \in AuxHistograms, a \in AuxInputs, store \in StoreInputs :
          frame = [pc |-> "aux_called", raised |-> "none",
                   histograms |-> h,
                   trigger |-> Trig, ref_trigger |-> Ref,
                   store_hists |-> store,
                   given |-> [histograms |-> h, store_hists |-> store,
                              dev_func |-> a.dev_func],
                   auxiliaries |-> a.auxiliaries, apply_aux_to |-> a.apply_aux_to,
                   dev_func |-> a.dev_func,
                   sf |-> NoHist, sf_aux |-> NoHist, eff |-> <<>>, dev |-> <<>>,
                   returned |-> <<>>]

\* raise: the call ends without a value
AuxRaise(error) == frame' = [frame EXCEPT !.pc = "aux_raised", !.raised = error]

\* lines 256-258
AuxLookup ==
    /\ frame.pc = "aux_called"
    /\ LET r == DevFuncLookup(frame.dev_func)
       IN  IF r.raised # "none" THEN AuxRaise(r.raised)
           ELSE frame' = [frame EXCEPT !.pc = "aux_looked_up", !.dev_func = r.func]
    /\ UNCHANGED <<cfgs, lists, sets, last>>

\* lines 260-262: the nominal efficiencies and scale factor
AuxNominal ==
    /\ frame.pc = "aux_looked_up"
    /\ LET nom_hist == [dt \in DOMAIN frame.histograms |->
                          ReduceAxes(frame.histograms[dt], Range(frame.auxiliaries))]
           eff == [dt \in DOMAIN nom_hist |->
                     CalculateEfficiency(nom_hist[dt], frame.trigger, frame.ref_trigger)]
           sf == DivideHist(eff["data"], eff["mc"])
       IN  IF sf.raised # "none" THEN AuxRaise(sf.raised)
           ELSE frame' = [frame EXCEPT !.pc = "aux_nominal", !.eff = eff, !.sf = sf.hist]
    /\ UNCHANGED <<cfgs, lists, sets, last>>

\* lines 265-267: the efficiencies with the auxiliary axes, for the dataset
\* types chosen, and their ratio
AuxApply ==
    /\ frame.pc = "aux_nominal"
    /\ LET apply_aux_to == IF frame.apply_aux_to = "both" THEN {"data", "mc"}
                           ELSE {frame.apply_aux_to}
           eff_aux == [dt \in DOMAIN frame.eff |->
                         IF dt \in apply_aux_to
                         THEN CalculateEfficiency(frame.histograms[dt], frame.trigger,
                                                  frame.ref_trigger)
                         ELSE frame.eff[dt]]
           sf_aux == DivideHist(eff_aux["data"], eff_aux["mc"])
       IN  IF sf_aux.raised # "none" THEN AuxRaise(sf_aux.raised)
           ELSE frame' = [frame EXCEPT !.pc = "aux_applied", !.sf_aux = sf_aux.hist]
    /\ UNCHANGED <<cfgs, lists, sets, last>>

\* lines 269-272: the deviations and what dev_func makes of them
AuxDeviation ==
    /\ frame.pc = "aux_applied"
    /\ LET aux_idx == AuxIdx(frame.sf_aux, frame.auxiliaries)
           dev == DevFuncCall(frame.dev_func,
                              Deviations(frame.sf_aux, frame.sf, aux_idx.idx),
                              aux_idx.idx, DOMAIN frame.sf.vals)
       IN  IF aux_idx.raised # "none" THEN AuxRaise(aux_idx.raised)
           ELSE IF dev.raised # "none" THEN AuxRaise(dev.raised)
           ELSE frame' = [frame EXCEPT !.pc = "aux_deviated", !.dev = dev.dev]
    /\ UNCHANGED <<cfgs, lists, sets, last>>

\* lines 274-278
AuxReturn ==
    /\ frame.pc = "aux_deviated"
    /\ LET sf == frame.sf.vals
           arrays == << [n \in DOMAIN sf |-> FSub(sf[n], frame.dev[1][n])],
                        [n \in DOMAIN sf |-> FAdd(sf[n], frame.dev[2][n])] >>
       IN  frame' = [frame EXCEPT
                       !.pc = "aux_returned",
                       !.returned = <<SystHistOf(ResultAxes(frame.sf, frame.sf_aux),
                                                 AuxName(frame.auxiliaries), arrays)>>]
    /\ UNCHANGED <<cfgs, lists, sets, last>>

NextAux == AuxLookup \/ AuxNominal \/ AuxApply \/ AuxDeviation \/ AuxReturn

SpecAux == InitAux /\ [][NextAux]_vars


-----------------------------------------------------------------------------
(* Properties of calc_auxiliary_unc, stated on the histograms it was given *)

AuxEnded == frame.pc \in {"aux_raised", "aux_returned"}

\* the bins of h at bins tr and rf of the trigger axes, bin n of the main
\* variables and a bin in A of the auxiliary axis
AuxBins(h, tr, rf, n, A) ==
    LET main == SelectSeq(h.axes, LAMBDA ax : ax.name \notin {Trig, Ref, Run})
    IN  { full \in DOMAIN h.vals :
            /\ full[AxisPos(h, Trig)] = tr
            /\ full[AxisPos(h, Ref)] = rf
            /\ full[AxisPos(h, Run)] \in A
            /\ \A q \in 1..Len(main) : full[AxisPos(h, main[q].name)] = n[q] }

\* the efficiency of dataset type dt in bin n, counting the auxiliary bins in A
AuxEff(dt, n, A) ==
    LET h == frame.given.histograms[dt]
        N(tr) == SumOver(AuxBins(h, tr, 1, n, A), h.vals)
    IN  FDiv(Whole(N(1)), Whole(N(0) + N(1)))

AuxCategories == 0..(frame.given.histograms["mc"].axes[AxisPos(frame.given.histograms["mc"], Run)].n - 1)

\* the nominal scale factor of bin n
AuxNominalSF(n) == FDiv(AuxEff("data", n, AuxCategories), AuxEff("mc", n, AuxCategories))

\* the scale factor of bin n in auxiliary bin a, the auxiliary axis being
\* kept for the dataset types in apply
AuxSF(n, a, apply) ==
    FDiv(AuxEff("data", n, IF "data" \in apply THEN {a} ELSE AuxCategories),
         AuxEff("mc", n, IF "mc" \in apply THEN {a} ELSE AuxCategories))

AuxApplied == IF frame.apply_aux_to = "both" THEN {"data", "mc"} ELSE {frame.apply_aux_to}

AuxDeviations(n) == { FSub(AuxSF(n, a, AuxApplied), AuxNominalSF(n)) : a \in AuxCategories }

AuxMainBins ==
    Indices(SelectSeq(frame.given.histograms["mc"].axes,
                      LAMBDA ax : ax.name \notin {Trig, Ref, Run}))

AuxBand(n) == <<frame.returned[1].vals[n \o <<0>>], frame.returned[1].vals[n \o <<1>>]>>

\* C14 as stated: calc_auxiliary_unc with dev_func="max_dev_sym" on
\* histograms whose auxiliary axis has one category returns a band with
\* down = up = the nominal scale factor in every bin.
C14_SingleCategoryZeroWidth ==
    ( /\ AuxEnded
      /\ frame.dev_func = Named("max_dev_sym")
      /\ frame.auxiliaries = <<Run>>
      /\ frame.apply_aux_to = "both"
      /\ AuxCategories = {0} )
    => /\ frame.pc = "aux_returned"
       /\ \A n \in AuxMainBins : AuxBand(n) = <<AuxNominalSF(n), AuxNominalSF(n)>>

\* the largest deviation below zero and the largest above zero, as widths
LargestNegative(S) ==
    IF \E x \in S : ~IsFinite(x) THEN NotFinite ELSE FAbs(FMin(S \cup {Whole(0)}))
LargestPositive(S) ==
    IF \E x \in S : ~IsFinite(x) THEN NotFinite ELSE FMax(S \cup {Whole(0)})

\* C15 as stated: with dev_func="max_dev", given by its name or as the
\* function registered under it, the band of every bin goes from
\* the nominal scale factor less the largest negative deviation of an
\* auxiliary bin to the nominal scale factor plus the largest positive one,
\* so that a direction in which no auxiliary bin deviates has no width.
C15_MaxDevSeparateDirections ==
    ( /\ AuxEnded
      /\ frame.dev_func \in {Named("max_dev"), Callable("max_dev")}
      /\ frame.auxiliaries = <<Run>>
      /\ frame.apply_aux_to = "both" )
    => /\ frame.pc = "aux_returned"
       /\ \A n \in AuxMainBins :
             AuxBand(n) = << FSub(AuxNominalSF(n), LargestNegative(AuxDeviations(n))),
                             FAdd(AuxNominalSF(n), LargestPositive(AuxDeviations(n))) >>

\* C16 as stated: for apply_aux_to "data", "mc" and "both" the call
\* completes and returns a band on the binning of the nominal scale factor,
\* made of the deviations between the nominal scale factor of a bin and the
\* scale factors of that bin with the auxiliary axis kept for the dataset
\* types chosen.  Stated for a dev_func that is a function of the caller.
C16_ApplyAuxTo ==
    ( /\ AuxEnded
      /\ frame.dev_func.kind = "callable"
      /\ frame.auxiliaries = <<Run>> )
    => /\ frame.pc = "aux_returned"
       /\ \A n \in AuxMainBins :
             AuxBand(n) =
                << FSub(AuxNominalSF(n), Reduced(frame.dev_func.name, AuxDeviations(n))[1]),
                   FAdd(AuxNominalSF(n), Reduced(frame.dev_func.name, AuxDeviations(n))[2]) >>

\* C17: calc_auxiliary_unc called with a name that is no key of dev_funcs
\* ends at once with a KeyError: no other function stands in for it,
\* nothing is returned, and store_hists and the histograms are as given.
C17_UnknownDevFunc ==
    (frame.pc # "aux_called" /\ frame.given.dev_func.kind = "name"
        /\ frame.given.dev_func.name \notin {"max_dev_sym", "max_dev", "std"})
    => /\ frame.pc = "aux_raised"
       /\ frame.raised = "KeyError"
       /\ frame.returned = <<>>
       /\ frame.sf = NoHist /\ frame.sf_aux = NoHist /\ frame.dev = <<>>
       /\ frame.store_hists = frame.given.store_hists
       /\ frame.histograms = frame.given.histograms

C17_Witness ==
    /\ frame.pc = "aux_raised"
    /\ frame.given.dev_func = Named("median")
    /\ frame.raised = "KeyError"
    /\ frame.store_hists # <<>>


-----------------------------------------------------------------------------
(* The three calculators together: a call of any one of them *)

InitCalc == InitStat \/ InitCorr \/ InitAux

NextCalc == NextStat \/ NextCorr \/ NextAux

SpecCalc == InitCalc /\ [][NextCalc]_vars

StatPcs == {"called", "loop", "returned"}
CorrPcs == {"corr_called", "corr_loop", "corr_stored", "corr_done"}

\* the histograms returned so far, each with the histogram it was computed
\* from and the axes that the scale factor is not binned in
ReturnedHists ==
    IF frame.pc = "returned"
    THEN { [hist |-> frame.out_hist, parent |-> frame.histograms["data"],
            dropped |-> {frame.trigger, frame.ref_trigger}] }
    ELSE IF frame.pc \in CorrPcs
    THEN { [hist |-> frame.returned[i], parent |-> frame.histograms["mc"],
            dropped |-> {frame.trigger, frame.ref_trigger}] : i \in 1..Len(frame.returned) }
    ELSE IF frame.pc = "aux_returned"
    THEN { [hist |-> frame.returned[1], parent |-> frame.given.histograms["data"],
            dropped |-> {frame.trigger, frame.ref_trigger} \cup Range(frame.auxiliaries)] }
    ELSE {}

RECURSIVE NBins(_)
NBins(axes) == IF axes = <<>> THEN 1 ELSE Head(axes).n * NBins(Tail(axes))

\* the sequences that loop_hists has produced so far
Yielded == IF frame.pc \in StatPcs \cup CorrPcs THEN Range(frame.yielded) ELSE {}

\* h at the bins that idx names, as a function of the bins of the other axes
SliceOf(h, idx, sub) ==
    LET others == SelectSeq(h.axes, LAMBDA ax : ax.name \notin DOMAIN idx)
        full == CHOOSE f \in DOMAIN h.vals :
                   /\ \A p \in 1..Len(h.axes) :
                         h.axes[p].name \in DOMAIN idx => f[p] = idx[h.axes[p].name]
                   /\ \A q \in 1..Len(others) : f[AxisPos(h, others[q].name)] = sub[q]
    IN  h.vals[full]

C19_WitnessCorr ==
    /\ frame.pc \in CorrPcs
    /\ Len(frame.yielded) = 2
    /\ frame.yielded[1].hists = frame.yielded[2].hists
    /\ Len(frame.yielded[1].pairs) > 1

-----------------------------------------------------------------------------
(* pu_weight: pileup weights and their outliers.  Events are a mapping from *)
(* column names to sequences of one value per event.                        *)

Pow2(k) == 2 ^ k

\* numpy.float32 of a non-negative whole number below 2^25: 24 bits of
\* mantissa, so that from 2^24 on only the even numbers exist and an odd one
\* goes to the neighbour whose half is even
F32(x) ==
    IF x < Pow2(24) \/ x % 2 = 0 THEN x
    ELSE IF ((x - 1) \div 2) % 2 = 0 THEN x - 1 ELSE x + 1

\* set_ak_column(events, name, values, value_type=np.float32)
SetAkColumnF32(events, name, values) ==
    [c \in DOMAIN events \cup {name} |->
        IF c = name THEN [i \in DOMAIN values |-> F32(values[i])] ELSE events[c]]

\* fill_at(events, where, name, value, value_type=np.float32): the column
\* holds the value where the mask is set and is as before elsewhere
FillAtF32(events, where, name, value) ==
    [events EXCEPT ![name] = [i \in DOMAIN @ |-> IF where[i] THEN F32(value) ELSE @[i]]]

\* the variations in the order of the loop, lines 63-67
PuVariations ==
    << [column_name |-> "pu_weight", syst |-> "nominal"],
       [column_name |-> "pu_weight_minbias_xs_up", syst |-> "up"],
       [column_name |-> "pu_weight_minbias_xs_down", syst |-> "down"] >>

\* self.pileup_corrector.evaluate for one event: a table of weights by
\* index (the number of true interactions less one) and variation
PileupCorrector(index, syst) ==
    CASE index = 0 -> 1
      [] index = 1 -> (CASE syst = "nominal" -> 100 [] syst = "up" -> 100 [] OTHER -> 99)
      [] index = 2 -> (CASE syst = "nominal" -> 99 [] syst = "up" -> 98 [] OTHER -> 200)
      [] index = 3 -> (CASE syst = "nominal" -> 150 [] syst = "up" -> 160 [] OTHER -> 140)
      [] OTHER -> Pow2(24) + 1

MaxNTrueInt == 5

\* a bug: a weight equal to the threshold counts as an outlier
OutlierMask_Inclusive(pu_weight, outlier_threshold) ==
    [i \in DOMAIN pu_weight |-> pu_weight[i] >= outlier_threshold]

\* line 75
OutlierMask(pu_weight, outlier_threshold) ==
    [i \in DOMAIN pu_weight |-> pu_weight[i] > outlier_threshold]

\* the outlier_action values of the docstring and those the code compares with
OutlierActions == {"ignore", "remove", "raise", "warning", "error"}

\* lines 89-90: the action that raises is "error"
RaisesOn(outlier_action, occurances) == outlier_action = "error" /\ occurances > 0

\* ak.sum(mask), lines 77 and 97
Occurances(mask) == Cardinality({ i \in DOMAIN mask : mask[i] })

PuEvents ==
    UNION { [Pileup_nTrueInt : [1..n -> 1..MaxNTrueInt], mc_weight : [1..n -> {-1, 1}]]
            : n \in 0..MaxEvents }

InitPu ==
    /\ cfgs = <<>>
    /\ lists = <<>>
    /\ sets = <<>>
    /\ last = Done("none", 0, FALSE, <<>>, <<>>)
    /\ \E ev \in PuEvents, threshold \in {100, Pow2(25)}, action \in OutlierActions :
          frame = [pc |-> "pu_loop", raised |-> "none",
                   given |-> ev,
                   events |-> ("Pileup.nTrueInt" :> ev.Pileup_nTrueInt
                               @@ "mc_weight" :> ev.mc_weight),
                   outlier_threshold |-> threshold, outlier_action |-> action,
                   indices |-> [i \in DOMAIN ev.Pileup_nTrueInt |-> ev.Pileup_nTrueInt[i] - 1],
                   any_outlier_mask |-> [i \in DOMAIN ev.Pileup_nTrueInt |-> FALSE],
                   k |-> 1, warnings |-> 0]

\* lines 63-90: one pass of the loop over the variations
PuVariation ==
    /\ frame.pc = "pu_loop"
    /\ frame.k <= Len(PuVariations)
    /\ LET v == PuVariations[frame.k]
           pu_weight == [i \in DOMAIN frame.indices |-> PileupCorrector(frame.indices[i], v.syst)]
           outlier_mask == OutlierMask(pu_weight, frame.outlier_threshold)
           any == [i \in DOMAIN outlier_mask |-> frame.any_outlier_mask[i] \/ outlier_mask[i]]
           events == SetAkColumnF32(frame.events, v.column_name, pu_weight)
       IN  frame' = [frame EXCEPT
                       !.any_outlier_mask = any,
                       !.events = events,
                       !.warnings = IF frame.outlier_action = "warning" THEN @ + 1 ELSE @,
                       !.pc = IF RaisesOn(frame.outlier_action, Occurances(outlier_mask))
                              THEN "pu_raised" ELSE "pu_loop",
                       !.raised = IF RaisesOn(frame.outlier_action, Occurances(outlier_mask))
                                  THEN "ValueError" ELSE "none",
                       !.k = @ + 1]
    /\ UNCHANGED <<cfgs, lists, sets, last>>

\* lines 95-108: the events with an outlier in any variation are removed
PuRemove ==
    /\ frame.pc = "pu_loop"
    /\ frame.k > Len(PuVariations)
    /\ frame.outlier_action = "remove"
    /\ LET e0 == FillAtF32(frame.events, frame.any_outlier_mask, "mc_weight", 0)
           e1 == FillAtF32(e0, frame.any_outlier_mask, "pu_weight", 0)
           e2 == FillAtF32(e1, frame.any_outlier_mask, "pu_weight_minbias_xs_up", 0)
           e3 == FillAtF32(e2, frame.any_outlier_mask, "pu_weight_minbias_xs_down", 0)
       IN  frame' = [frame EXCEPT !.events = e3, !.pc = "pu_returned"]
    /\ UNCHANGED <<cfgs, lists, sets, last>>

\* lines 95 and 110: any other action returns the events as they are
PuReturn ==
    /\ frame.pc = "pu_loop"
    /\ frame.k > Len(PuVariations)
    /\ frame.outlier_action # "remove"
    /\ frame' = [frame EXCEPT !.pc = "pu_returned"]
    /\ UNCHANGED <<cfgs, lists, sets, last>>

NextPu == PuVariation \/ PuRemove \/ PuReturn

SpecPu == InitPu /\ [][NextPu]_vars

-----------------------------------------------------------------------------
(* Properties of pu_weight, stated on the events it was given *)

PuEnded == frame.pc \in {"pu_raised", "pu_returned"}

PuN == Len(frame.given.Pileup_nTrueInt)

\* the weight of event i in a variation, as the corrector evaluates it
Evaluated(i, syst) == PileupCorrector(frame.given.Pileup_nTrueInt[i] - 1, syst)

\* event i has a weight above the threshold in one of the three variations
IsOutlier(i) ==
    \E syst \in {"nominal", "up", "down"} : Evaluated(i, syst) > frame.outlier_threshold

\* C21 as stated: pu_weight with outlier_action="raise" raises whenever an
\* event has a pileup weight, nominal, up or down, above outlier_threshold.
C21_RaiseActionRaises ==
    ( /\ PuEnded
      /\ frame.outlier_action = "raise"
      /\ \E i \in 1..PuN : IsOutlier(i) )
    => frame.pc = "pu_raised"

\* C22: with outlier_action="remove" the result has 0 in pu_weight,
\* pu_weight_minbias_xs_up, pu_weight_minbias_xs_down and mc_weight for
\* exactly the events with a weight above the threshold in any variation;
\* every other event has the evaluated weights, as float32, in the three
\* pileup columns and the mc_weight it came with.
C22_RemoveOutliers ==
    (frame.pc = "pu_returned" /\ frame.outlier_action = "remove")
    => \A i \in 1..PuN :
          IF IsOutlier(i)
          THEN /\ \A v \in Range(PuVariations) : frame.events[v.column_name][i] = 0
               /\ frame.events["mc_weight"][i] = 0
          ELSE /\ \A v \in Range(PuVariations) :
                     frame.events[v.column_name][i] = F32(Evaluated(i, v.syst))
               /\ frame.events["mc_weight"][i] = frame.given.mc_weight[i]

\* an event that is an outlier in one variation only, next to one that is not
C22_Witness ==
    /\ frame.pc = "pu_returned"
    /\ frame.outlier_action = "remove"
    /\ \E i, j \in 1..PuN :
          /\ IsOutlier(i) /\ Evaluated(i, "nominal") <= frame.outlier_threshold
          /\ ~IsOutlier(j) /\ frame.events["pu_weight"][j] # 0


-----------------------------------------------------------------------------
(* timing: update_timing and the timer decorator.  The four dictionaries    *)
(* are defaultdict(bool): a key that was never written reads as False,      *)
(* which counts as 0.  Times are whole ticks.                               *)

\* the keys of a function my_func: its name, a tag, and the tag with the name
TimingKeys == {"my_func", "tag", "tag my_func"}

\* the keyword arguments that update_timing takes, line 11
UpdateTimingKeywords == {"min_dt", "count", "min_count"}

\* a bug: the report is made from the threshold on
ReportsTime_AtThreshold(total, prev, min_dt) == total - prev >= min_dt

\* line 13
ReportsTime(total, prev, min_dt) == total - prev > min_dt

\* line 19
ReportsCount(total, prev, min_count) == total - prev > min_count

\* update_timing(key, dt, min_dt, count, min_count), lines 12-21: the
\* dictionaries after the call and what it printed
UpdateTimingCall(d, key, dt, min_dt, count, min_count) ==
    LET total == d.timing_dict[key] + dt
        timed == ReportsTime(total, d.prev_timing_dict[key], min_dt)
        n == d.counting_dict[key] + 1
        counted == count /\ ReportsCount(n, d.prev_counting_dict[key], min_count)
    IN  [timing_dict |-> [d.timing_dict EXCEPT ![key] = total],
         prev_timing_dict |-> IF timed THEN [d.prev_timing_dict EXCEPT ![key] = total]
                              ELSE d.prev_timing_dict,
         counting_dict |-> IF count THEN [d.counting_dict EXCEPT ![key] = n]
                           ELSE d.counting_dict,
         prev_counting_dict |-> IF counted THEN [d.prev_counting_dict EXCEPT ![key] = n]
                                ELSE d.prev_counting_dict,
         printed |-> (IF timed THEN <<[key |-> key, value |-> total, of |-> "time"]>> ELSE <<>>)
                     \o (IF counted THEN <<[key |-> key, value |-> n, of |-> "count"]>>
                         ELSE <<>>)]

\* line 47: wrap_kwargs = dict(minD_dt=min_dt, count=count, min_count=min_count)
WrapKwargs == {"minD_dt", "count", "min_count"}

TimingDicts ==
    [timing_dict |-> frame.timing_dict, prev_timing_dict |-> frame.prev_timing_dict,
     counting_dict |-> frame.counting_dict, prev_counting_dict |-> frame.prev_counting_dict]

\* min_dt and min_count are chosen once and used in every call
InitTime ==
    /\ cfgs = <<>>
    /\ lists = <<>>
    /\ sets = <<>>
    /\ last = Done("none", 0, FALSE, <<>>, <<>>)
    /\ \E min_dt \in 0..MaxDt, min_count \in 0..1 :
          frame = [pc |-> "timing",
                   timing_dict |-> [k \in TimingKeys |-> 0],
                   prev_timing_dict |-> [k \in TimingKeys |-> 0],
                   counting_dict |-> [k \in TimingKeys |-> 0],
                   prev_counting_dict |-> [k \in TimingKeys |-> 0],
                   min_dt |-> min_dt, min_count |-> min_count,
                   call |-> [op |-> "none"]]

\* update_timing(key, dt, min_dt=..., count=..., min_count=...)
UpdateTiming(key, dt, count) ==
    /\ frame.pc = "timing"
    /\ frame.timing_dict[key] + dt <= MaxTotal
    /\ count => frame.counting_dict[key] < MaxTotal
    /\ LET r == UpdateTimingCall(TimingDicts, key, dt, frame.min_dt, count, frame.min_count)
       IN  frame' = [frame EXCEPT
                       !.timing_dict = r.timing_dict,
                       !.prev_timing_dict = r.prev_timing_dict,
                       !.counting_dict = r.counting_dict,
                       !.prev_counting_dict = r.prev_counting_dict,
                       !.call = [op |-> "update_timing", key |-> key, dt |-> dt,
                                 count |-> count, printed |-> r.printed]]
    /\ UNCHANGED <<cfgs, lists, sets, last>>

\* a call of my_func decorated with timer (tagged or not), lines 50-59: the
\* function runs and takes dt; update_timing(key, dt, **wrap_kwargs) raises
\* TypeError for a keyword it does not take
TimerCall(tagged, dt, count) ==
    /\ frame.pc = "timing"
    /\ LET keys == IF tagged THEN <<"tag", "tag my_func">> ELSE <<"my_func">>
           fits == WrapKwargs \subseteq UpdateTimingKeywords
           r1 == UpdateTimingCall(TimingDicts, keys[1], dt, frame.min_dt, count,
                                  frame.min_count)
           r == IF tagged
                THEN UpdateTimingCall(r1, keys[2], dt, frame.min_dt, count, frame.min_count)
                ELSE r1
       IN  /\ fits => frame.timing_dict[keys[1]] + dt <= MaxTotal
           /\ (fits /\ count) => frame.counting_dict[keys[1]] < MaxTotal
           /\ frame' = [frame EXCEPT
                         !.timing_dict = IF fits THEN r.timing_dict ELSE @,
                         !.prev_timing_dict = IF fits THEN r.prev_timing_dict ELSE @,
                         !.counting_dict = IF fits THEN r.counting_dict ELSE @,
                         !.prev_counting_dict = IF fits THEN r.prev_counting_dict ELSE @,
                         !.call = [op |-> "timer", tagged |-> tagged, dt |-> dt,
                                   count |-> count, ran |-> 1,
                                   raised |-> IF fits THEN "none" ELSE "TypeError",
                                   returned |-> fits,
                                   before |-> frame.timing_dict[keys[1]]]]
    /\ UNCHANGED <<cfgs, lists, sets, last>>

NextTime ==
    \/ \E dt \in 0..MaxDt, count \in BOOLEAN : UpdateTiming("my_func", dt, count)
    \/ \E tagged \in BOOLEAN, dt \in 0..MaxDt, count \in BOOLEAN : TimerCall(tagged, dt, count)

SpecTime == InitTime /\ [][NextTime]_vars

-----------------------------------------------------------------------------
(* Properties of timing *)

\* C23 as stated: a call of a function decorated with timer runs the
\* function once, returns its value and adds the time the call took to the
\* total under the name of the function or, with a tag, under the tag (and
\* under the tag with the name).
C23_TimerAccumulates ==
    frame.call.op = "timer"
    => /\ frame.call.ran = 1
       /\ frame.call.returned
       /\ frame.call.raised = "none"
       /\ LET key == IF frame.call.tagged THEN "tag" ELSE "my_func"
          IN  frame.timing_dict[key] = frame.call.before + frame.call.dt

\* C28: with min_dt fixed, every update_timing(key, dt, min_dt) with dt >= 0
\* adds dt to the total of the key, which is never reset; it prints the
\* total exactly when the new total is more than min_dt above the total last
\* printed; and afterwards the total is at least the total last printed and
\* at most min_dt above it.
C28_UpdateTiming ==
    [][ frame'.call.op = "update_timing" =>
          LET key == frame'.call.key
              total == frame'.timing_dict[key]
              timed == { i \in 1..Len(frame'.call.printed) : frame'.call.printed[i].of = "time" }
          IN  /\ total = frame.timing_dict[key] + frame'.call.dt
              /\ (timed # {}) <=> (total - frame.prev_timing_dict[key] > frame.min_dt)
              /\ \A i \in timed : frame'.call.printed[i] = [key |-> key, value |-> total, of |-> "time"]
              /\ 0 <= total - frame'.prev_timing_dict[key]
              /\ total - frame'.prev_timing_dict[key] <= frame.min_dt
              /\ \A k \in TimingKeys \ {key} :
                    /\ frame'.timing_dict[k] = frame.timing_dict[k]
                    /\ frame'.prev_timing_dict[k] = frame.prev_timing_dict[k] ]_vars

\* a call that does not print, the total being exactly min_dt above the
\* total last printed, after a call that printed
C28_Witness ==
    /\ frame.call.op = "update_timing"
    /\ frame.call.printed = <<>>
    /\ frame.prev_timing_dict[frame.call.key] > 0
    /\ frame.min_dt > 0
    /\ frame.timing_dict[frame.call.key] - frame.prev_timing_dict[frame.call.key] = frame.min_dt


-----------------------------------------------------------------------------
(* CreateCutflowHistograms.run: the fills of the cutflow histograms.  The   *)
(* events of a chunk are 1..n; a mask is the set of events it selects.      *)

\* sel.steps.fields: the steps the selector defines, in its order
SelectorSteps == <<"trigger", "lepton">>

InitialStep == "Initial"

\* the steps asked for; "all" stands for self.selector_steps_all
RequestedSteps ==
    { <<"all">>, <<"trigger", "lepton">>, <<"lepton", "jet", "trigger">>,
      <<"jet", "trigger">>, <<"lepton", "jet">> }

\* a chunk: its number of events and sel.steps as a mask for every step
CutChunks ==
    UNION { [n : {n}, steps : [Range(SelectorSteps) -> SUBSET (1..n)]] : n \in 0..MaxEvents }

LastChunk == [n |-> 1, steps |-> [st \in Range(SelectorSteps) |->
                                     IF st = "trigger" THEN {1} ELSE {}]]

\* mask is True (every event) until a step defined by the selector is met
AllEvents == [all |-> TRUE, events |-> {}]

\* the events that get_point(mask) takes, lines 277-280
Selected(mask, n) == IF mask.all THEN 1..n ELSE mask.events

\* a bug: the mask of the step replaces the mask so far
UpdateMask_Replaces(mask, step_mask, n) == [all |-> FALSE, events |-> step_mask]

\* line 315: mask = mask & sel.steps[step]
UpdateMask(mask, step_mask, n) ==
    [all |-> FALSE, events |-> Selected(mask, n) \cap step_mask]

InitCut ==
    /\ cfgs = <<>>
    /\ lists = <<>>
    /\ sets = <<>>
    /\ last = Done("none", 0, FALSE, <<>>, <<>>)
    /\ \E first \in CutChunks, more \in BOOLEAN, steps \in RequestedSteps,
          strategy \in {"raise", "ignore", "dummy"}, nvars \in 1..2 :
          frame = [pc |-> "cut_chunk", raised |-> "none",
                   chunks |-> IF more THEN <<first, LastChunk>> ELSE <<first>>,
                   requested |-> steps, steps |-> steps,
                   missing_selector_step_strategy |-> strategy,
                   variable_tuples |-> nvars,
                   chunk |-> 1, var |-> 1, k |-> 0, mask |-> AllEvents,
                   fills |-> <<>>, dumped |-> FALSE]

\* lines 256-257 and 296-304: at the start of the pass for a variable tuple
\* the steps are settled, the raw point is filled under the initial step and
\* the mask is True
CutInitial ==
    /\ frame.pc = "cut_chunk"
    /\ frame' = [frame EXCEPT
                   !.pc = "cut_steps",
                   !.steps = IF @ = <<"all">> THEN SelectorSteps ELSE @,
                   !.mask = AllEvents,
                   !.k = 1,
                   !.fills = <<[k |-> 0, step |-> InitialStep,
                                events |-> 1..frame.chunks[frame.chunk].n]>>]
    /\ UNCHANGED <<cfgs, lists, sets, last>>

\* lines 305-324: one pass of the loop over the steps
CutStep ==
    /\ frame.pc = "cut_steps"
    /\ frame.k <= Len(frame.steps)
    /\ LET step == frame.steps[frame.k]
           sel == frame.chunks[frame.chunk]
           defined == step \in Range(SelectorSteps)
           strategy == frame.missing_selector_step_strategy
           mask == IF defined THEN UpdateMask(frame.mask, sel.steps[step], sel.n)
                   ELSE frame.mask
       IN  IF ~defined /\ strategy = "raise"
           THEN frame' = [frame EXCEPT !.pc = "cut_raised", !.raised = "ValueError"]
           ELSE IF ~defined /\ strategy = "ignore"
           THEN frame' = [frame EXCEPT !.k = @ + 1]
           ELSE frame' = [frame EXCEPT
                            !.k = @ + 1,
                            !.mask = mask,
                            !.fills = Append(@, [k |-> frame.k, step |-> step,
                                                 events |-> Selected(mask, sel.n)])]
    /\ UNCHANGED <<cfgs, lists, sets, last>>

\* lines 243 and 274: on to the next variable tuple or the next chunk
CutAdvance ==
    /\ frame.pc = "cut_steps"
    /\ frame.k > Len(frame.steps)
    /\ \/ frame.var < frame.variable_tuples
       \/ frame.chunk < Len(frame.chunks)
    /\ frame' = [frame EXCEPT
                   !.pc = "cut_chunk",
                   !.var = IF @ < frame.variable_tuples THEN @ + 1 ELSE 1,
                   !.chunk = IF frame.var < frame.variable_tuples THEN @ ELSE @ + 1]
    /\ UNCHANGED <<cfgs, lists, sets, last>>

\* line 327: the histograms are written
CutDump ==
    /\ frame.pc = "cut_steps"
    /\ frame.k > Len(frame.steps)
    /\ frame.var = frame.variable_tuples
    /\ frame.chunk = Len(frame.chunks)
    /\ frame' = [frame EXCEPT !.pc = "cut_done", !.dumped = TRUE]
    /\ UNCHANGED <<cfgs, lists, sets, last>>

NextCut == CutInitial \/ CutStep \/ CutAdvance \/ CutDump

SpecCut == InitCut /\ [][NextCut]_vars

-----------------------------------------------------------------------------
(* Properties of the cutflow fills: frame.fills holds the fills of the      *)
(* chunk and variable tuple at hand                                         *)

\* the steps asked for, "all" being the steps of the selector
CutRequested == IF frame.requested = <<"all">> THEN SelectorSteps ELSE frame.requested

\* the events of the chunk at hand that pass every step of the selector
\* among the first k steps asked for
PassingFirst(k) ==
    { e \in 1..frame.chunks[frame.chunk].n :
        \A j \in 1..k : CutRequested[j] \in Range(SelectorSteps)
                           => e \in frame.chunks[frame.chunk].steps[CutRequested[j]] }

FillsOf(k) == { i \in 1..Len(frame.fills) : frame.fills[i].k = k }

\* C24: in every chunk the fill of the k-th step asked for holds exactly
\* the events that pass all steps of the selector among the first k, the
\* initial step holding all events, so that the events never grow from one
\* fill to the next; a step the selector does not define aborts with
\* ValueError under "raise", is not filled under "ignore", and is filled with
\* the events of the fill before it under "dummy".
C24_CutflowFills ==
    frame.pc \in {"cut_steps", "cut_raised", "cut_done"} =>
       /\ frame.fills[1] = [k |-> 0, step |-> InitialStep,
                            events |-> 1..frame.chunks[frame.chunk].n]
       /\ \A i \in 2..Len(frame.fills) :
             /\ frame.fills[i].step = CutRequested[frame.fills[i].k]
             /\ frame.fills[i].events = PassingFirst(frame.fills[i].k)
             /\ frame.fills[i].events \subseteq frame.fills[i - 1].events
             /\ frame.fills[i].k > frame.fills[i - 1].k
       /\ \A k \in 1..(frame.k - 1) :
             IF CutRequested[k] \in Range(SelectorSteps)
             THEN Cardinality(FillsOf(k)) = 1
             ELSE CASE frame.missing_selector_step_strategy = "ignore" -> FillsOf(k) = {}
                    [] frame.missing_selector_step_strategy = "dummy" ->
                          \E i \in 2..Len(frame.fills) :
                             /\ FillsOf(k) = {i}
                             /\ frame.fills[i].events = frame.fills[i - 1].events
                    [] OTHER -> FALSE
       /\ frame.pc = "cut_raised" =>
             /\ frame.raised = "ValueError"
             /\ frame.missing_selector_step_strategy = "raise"
             /\ CutRequested[frame.k] \notin Range(SelectorSteps)
             /\ FillsOf(frame.k) = {}
             /\ ~frame.dumped

\* a dummy fill between two steps of the selector that each cut events away
C24_Witness ==
    /\ frame.pc = "cut_steps"
    /\ frame.missing_selector_step_strategy = "dummy"
    /\ Len(frame.fills) = 4
    /\ frame.fills[3].step = "jet"
    /\ frame.fills[3].events # frame.fills[1].events
    /\ frame.fills[4].events # frame.fills[3].events


-----------------------------------------------------------------------------
(* Properties of copy and event_mask.  The first configuration is made by   *)
(* the constructor; every further one is a clone made by copy.              *)

\* C25 as stated: calling an entry of a clone calls the calculator under it
\* exactly once, with (histograms, tag, ref_tag, *args), as the entry of the
\* original does: the wrapper that merges and reduces is passed once, however
\* many copies were made.
C25_CloneEntryCallsOnce ==
    (last.op = "invoke" /\ last.cfg > 1)
    => /\ Len(last.calls) = 2
       /\ ~last.calls[1].raised
       /\ last.calls[2].callee.layers = <<>>
       /\ last.calls[2].args = <<cfgs[last.cfg].tag, cfgs[last.cfg].ref_tag>> \o last.inp.x.args

\* C26 as stated: a clone of a configuration that has a statistical source
\* has one too, bound to the same function.
C26_CloneKeepsStat ==
    (last.op = "copy" /\ ~last.raised /\ cfgs[last.inp.from].stat_func # NoneFunc)
    => /\ cfgs[last.cfg].stat_func # NoneFunc
       /\ cfgs[last.cfg].stat_func.base = cfgs[last.inp.from].stat_func.base

\* C27 as stated: event_mask(func) with uses left at None completes without
\* raising and registers func as event_mask_func.
C27_MaskWithoutUses ==
    (last.op = "event_mask" /\ last.inp.uses.isNone)
    => /\ ~last.raised
       /\ cfgs[last.cfg].event_mask_func = last.inp.func

(***************************************************************************)
(* remove_obj_overlap (columnar_util_Ghent.py, lines 54-62).  An array is   *)
(* the set of the names of its columns.                                     *)
(***************************************************************************)

MaxArrays == 3

OverlapColumns == {"Jet", "Muon", "event"}

\* the default of the keyword objects (line 54) and other choices for it
DefaultObjects == <<"Jet", "Electron", "Muon">>

OverlapObjects == {DefaultObjects, <<"Jet">>, <<"Muon", "Jet">>, <<>>}

\* columnar_util.has_ak_column and remove_ak_column, as line 60-61 use them:
\* the second gives a new array without the column and leaves its argument
\* as it was.
HasAkColumn(array, route) == route \in array

RemoveAkColumn(array, route) == array \ {route}

\* the condition of line 60, with the earlier array only (a variant)
HasBoth_EarlierOnly(c0, c, obj) == HasAkColumn(c0, obj)

\* line 60
HasBoth(c0, c, obj) == HasAkColumn(c0, obj) /\ HasAkColumn(c, obj)

\* arrays[1:] and arrays[:i1], copies of the list at the time they are taken
SliceFrom1(arrays) == IF arrays = <<>> THEN <<>> ELSE Tail(arrays)

SliceTo(arrays, i1) == SubSeq(arrays, 1, i1)

OverlapInputs ==
    UNION {[1..n -> SUBSET OverlapColumns] : n \in 0..MaxArrays}

InitOverlap ==
    /\ cfgs = <<>> /\ lists = <<>> /\ sets = <<>>
    /\ last = Done("none", 0, FALSE, <<>>, <<>>)
    /\ \E given \in OverlapInputs, objects \in OverlapObjects :
          frame = [pc |-> "obj", given |-> given, objects |-> objects,
                   arrays |-> given,          \* line 55
                   o |-> 0, tail |-> <<>>, i1 |-> 0, head |-> <<>>, i2 |-> 0]

\* line 56: the next obj; line 57 takes arrays[1:] once for its loop
OverlapObj ==
    /\ frame.pc = "obj"
    /\ frame.o < Len(frame.objects)
    /\ frame' = [frame EXCEPT !.o = @ + 1, !.tail = SliceFrom1(frame.arrays),
                              !.i1 = 0, !.pc = "outer"]
    /\ UNCHANGED <<cfgs, lists, sets, last>>

\* lines 57-59: the next c of the copy, or the loop ends; line 59 takes
\* arrays[:i1] once for the inner loop
OverlapOuter ==
    /\ frame.pc = "outer"
    /\ IF frame.i1 < Len(frame.tail)
       THEN frame' = [frame EXCEPT !.i1 = @ + 1,
                                   !.head = SliceTo(frame.arrays, frame.i1 + 1),
                                   !.i2 = 0, !.pc = "inner"]
       ELSE frame' = [frame EXCEPT !.pc = "obj"]
    /\ UNCHANGED <<cfgs, lists, sets, last>>

\* lines 59-61: the next c0 of the copy, or the loop ends
OverlapInner ==
    /\ frame.pc = "inner"
    /\ IF frame.i2 < Len(frame.head)
       THEN LET i2 == frame.i2 + 1
                c0 == frame.head[i2]
                c == frame.tail[frame.i1]
                obj == frame.objects[frame.o]
            IN  frame' = [frame EXCEPT
                    !.i2 = i2,
                    !.arrays = IF HasBoth(c0, c, obj)
                               THEN [@ EXCEPT ![i2] = RemoveAkColumn(c0, obj)]
                               ELSE @]
       ELSE frame' = [frame EXCEPT !.pc = "outer"]
    /\ UNCHANGED <<cfgs, lists, sets, last>>

\* line 62
OverlapReturn ==
    /\ frame.pc = "obj"
    /\ frame.o = Len(frame.objects)
    /\ frame' = [frame EXCEPT !.pc = "done"]
    /\ UNCHANGED <<cfgs, lists, sets, last>>

NextOverlap == OverlapObj \/ OverlapOuter \/ OverlapInner \/ OverlapReturn

SpecOverlap == InitOverlap /\ [][NextOverlap]_vars

OverlapEnded == frame.pc = "done"

\* the last input array that has the column, 0 if none has it
LastWith(arrays, obj) ==
    LET having == {i \in 1..Len(arrays) : obj \in arrays[i]}
    IN  IF having = {} THEN 0 ELSE CHOOSE i \in having : \A j \in having : j <= i

\* C29: after remove_obj_overlap(*arrays, objects) there are as many arrays
\* as were given, in the same order; for every name in objects the only
\* returned array that still has that column is the last given array that had
\* it; every array keeps all its other columns and gains none.
C29_RemoveObjOverlap ==
    OverlapEnded
    => LET given == frame.given
           out == frame.arrays
           objs == {frame.objects[k] : k \in 1..Len(frame.objects)}
       IN  /\ Len(out) = Len(given)
           /\ \A i \in 1..Len(given) :
                 /\ out[i] \ objs = given[i] \ objs
                 /\ \A obj \in objs :
                       obj \in out[i] <=> i = LastWith(given, obj)

\* three arrays, the first two with Jet and the first and last with Muon: the
\* second keeps Jet, the third keeps Muon, the first keeps only event
C29_Witness ==
    /\ OverlapEnded
    /\ frame.objects = DefaultObjects
    /\ frame.given = <<{"Jet", "Muon", "event"}, {"Jet"}, {"Muon", "event"}>>
    /\ frame.arrays = <<{"event"}, {"Jet"}, {"Muon", "event"}>>

(***************************************************************************)
(* check_task_parquet_inputs and remove_corrupted_parquet                   *)
(* (columnar_util_Ghent.py, lines 64-94).  The inputs are a tree: a node is *)
(* a dict or a list with its values as kids, or a target.  A node is named  *)
(* by its path, the positions from the root down to it.                     *)
(***************************************************************************)

MaxNodes == 4

ContainerKinds == {"dict", "list"}

\* a readable, an unreadable and a missing local parquet file, a local file
\* that is no parquet file, and an unreadable parquet file that is not local
ParquetTargets ==
    {"ok.parquet", "corrupt.parquet", "missing.parquet", "local.json",
     "remote_corrupt.parquet"}

\* line 75: isinstance(inputs, law.LocalFileTarget)
IsLocalFileTarget(t) == t # "remote_corrupt.parquet"

\* line 76: inputs.abspath.endswith("parquet")
EndsWithParquet(t) == t # "local.json"

\* line 77: inputs.exists()
TargetExists(t) == t # "missing.parquet"

\* lines 80-81: ak.metadata_from_parquet raises pyarrow.ArrowInvalid
RaisesArrowInvalid(t) == t \in {"corrupt.parquet", "remote_corrupt.parquet"}

TargetNode(t) == [kind |-> "target", kids |-> <<>>, target |-> t]

ContainerNode(kind, kids) == [kind |-> kind, kids |-> kids, target |-> ""]

RECURSIVE TreesOf(_)
RECURSIVE Forests(_)
\* the trees of exactly n nodes, and the sequences of trees of m nodes in all
TreesOf(n) ==
    (IF n = 1 THEN {TargetNode(t) : t \in ParquetTargets} ELSE {})
    \cup {ContainerNode(kind, kids) : kind \in ContainerKinds, kids \in Forests(n - 1)}

Forests(m) ==
    IF m = 0 THEN {<<>>}
    ELSE UNION {{<<t>> \o f : t \in TreesOf(k), f \in Forests(m - k)} : k \in 1..m}

ParquetInputs == UNION {TreesOf(n) : n \in 1..MaxNodes}

RECURSIVE NodeAt(_, _)
NodeAt(node, path) ==
    IF path = <<>> THEN node ELSE NodeAt(node.kids[Head(path)], Tail(path))

\* line 68
IsContainer(node) == node.kind \in ContainerKinds

\* line 69: the values of a dict, in its order, or the list itself
InputValues(node) == node.kids

\* line 71, with the result of the call alone (a variant)
OrElse_CallOnly(a, b) == a

\* line 71: a or b, for values that are None or an exception
OrElse(a, b) == IF ~a.isNone THEN a ELSE b

\* a call of check_task_parquet_inputs on the node at path (line 67)
Activation(path) == [path |-> path, k |-> 0, error |-> NoneV]

\* the call on top of the stack returns ret: to line 71 of its caller, or to
\* remove_corrupted_parquet (lines 90, 93)
ParquetReturned(f, ret) ==
    LET n == Len(f.stack)
    IN  IF n > 1
        THEN [f EXCEPT !.stack = [SubSeq(f.stack, 1, n - 1) EXCEPT
                                     ![n - 1].error = OrElse(ret, @)],
                       !.steps = @ + 1]
        ELSE IF f.mode = "check"
        THEN [f EXCEPT !.stack = <<>>, !.error = ret, !.pc = "test", !.steps = @ + 1]
        ELSE [f EXCEPT !.stack = <<>>, !.pc = "return", !.steps = @ + 1]

InitParquet ==
    /\ cfgs = <<>> /\ lists = <<>> /\ sets = <<>>
    /\ last = Done("none", 0, FALSE, <<>>, <<>>)
    /\ \E inputs \in ParquetInputs :
          frame = [pc |-> "start", inputs |-> inputs, mode |-> "check",
                   stack |-> <<>>, error |-> NoneV, removed |-> {}, steps |-> 0]

\* line 90
ParquetCheck ==
    /\ frame.pc = "start"
    /\ frame' = [frame EXCEPT !.pc = "run", !.mode = "check",
                              !.stack = <<Activation(<<>>)>>, !.steps = @ + 1]
    /\ UNCHANGED <<cfgs, lists, sets, last>>

\* lines 70-71: the call on the next value of a dict or list
ParquetEnter ==
    /\ frame.pc = "run"
    /\ LET n == Len(frame.stack)
           top == frame.stack[n]
           node == NodeAt(frame.inputs, top.path)
       IN  /\ IsContainer(node)
           /\ top.k < Len(InputValues(node))
           /\ frame' = [frame EXCEPT
                           !.stack = Append([@ EXCEPT ![n].k = top.k + 1],
                                            Activation(Append(top.path, top.k + 1))),
                           !.steps = @ + 1]
    /\ UNCHANGED <<cfgs, lists, sets, last>>

\* line 72
ParquetExit ==
    /\ frame.pc = "run"
    /\ LET top == frame.stack[Len(frame.stack)]
           node == NodeAt(frame.inputs, top.path)
       IN  /\ IsContainer(node)
           /\ top.k = Len(InputValues(node))
           /\ frame' = ParquetReturned(frame, top.error)
    /\ UNCHANGED <<cfgs, lists, sets, last>>

\* lines 73-86: a value that is no dict, tuple or list
ParquetLeaf ==
    /\ frame.pc = "run"
    /\ LET top == frame.stack[Len(frame.stack)]
           node == NodeAt(frame.inputs, top.path)
           t == node.target
       IN  /\ ~IsContainer(node)
           /\ IF /\ frame.mode = "check"
                 /\ IsLocalFileTarget(t)
                 /\ EndsWithParquet(t)
                 /\ TargetExists(t) /\ top.path \notin frame.removed
              THEN frame' = ParquetReturned(frame,
                                IF RaisesArrowInvalid(t) THEN Some(top.path) ELSE NoneV)
              ELSE IF frame.mode = "remove"
              THEN frame' = ParquetReturned(
                                [frame EXCEPT !.removed = @ \cup {top.path}], NoneV)
              ELSE frame' = ParquetReturned(frame, NoneV)
    /\ UNCHANGED <<cfgs, lists, sets, last>>

\* lines 91-93
ParquetRemove ==
    /\ frame.pc = "test"
    /\ IF ~frame.error.isNone
       THEN frame' = [frame EXCEPT !.pc = "run", !.mode = "remove",
                                   !.stack = <<Activation(<<>>)>>, !.steps = @ + 1]
       ELSE frame' = [frame EXCEPT !.pc = "return", !.steps = @ + 1]
    /\ UNCHANGED <<cfgs, lists, sets, last>>

\* line 94
ParquetReturn ==
    /\ frame.pc = "return"
    /\ frame' = [frame EXCEPT !.pc = "done", !.steps = @ + 1]
    /\ UNCHANGED <<cfgs, lists, sets, last>>

NextParquet ==
    \/ ParquetCheck \/ ParquetEnter \/ ParquetExit \/ ParquetLeaf
    \/ ParquetRemove \/ ParquetReturn

SpecParquet == InitParquet /\ [][NextParquet]_vars

ParquetEnded == frame.pc = "done"

RECURSIVE PathsOf(_)
\* the paths of all nodes of a tree
PathsOf(node) ==
    {<<>>} \cup UNION {{<<i>> \o p : p \in PathsOf(node.kids[i])} : i \in 1..Len(node.kids)}

LeafTargets(inputs) == {p \in PathsOf(inputs) : ~IsContainer(NodeAt(inputs, p))}

\* the existing local parquet targets that cannot be read
Unreadable(inputs) ==
    {p \in LeafTargets(inputs) :
        LET t == NodeAt(inputs, p).target
        IN  /\ IsLocalFileTarget(t) /\ EndsWithParquet(t) /\ TargetExists(t)
            /\ RaisesArrowInvalid(t)}

\* C30: remove_corrupted_parquet(name, inputs) over nested dicts and lists
\* terminates: it is never stuck before its return and takes at most four
\* steps per node.  Nothing is removed unless the check has returned an error.
\* On return, if every existing local parquet target is readable there is no
\* error and nothing was removed; if one is unreadable the error of one of
\* them is returned and every leaf target was removed, readable or not.
C30_RemoveCorruptedParquet ==
    /\ frame.steps <= 4 * Cardinality(PathsOf(frame.inputs)) + 1
    /\ frame.pc = "run" => frame.stack # <<>>
    /\ frame.removed # {} => (frame.mode = "remove" /\ ~frame.error.isNone)
    /\ ParquetEnded
       => IF Unreadable(frame.inputs) = {}
          THEN frame.error.isNone /\ frame.removed = {}
          ELSE /\ ~frame.error.isNone
               /\ frame.error.val \in Unreadable(frame.inputs)
               /\ frame.removed = LeafTargets(frame.inputs)

\* {"a": [corrupt], "b": ok}: the error of the unreadable file is returned
\* and both files are removed
C30_Witness ==
    /\ ParquetEnded
    /\ frame.inputs = ContainerNode("dict",
                         <<ContainerNode("list", <<TargetNode("corrupt.parquet")>>),
                           TargetNode("ok.parquet")>>)
    /\ frame.error = Some(<<1, 1>>)
    /\ frame.removed = {<<1, 1>>, <<2>>}


====
